---- MODULE Spec2Model ----
(***************************************************************************)
(* Customer-order dashboard API: the Express route handlers of             *)
(* backend/routes (orders, customers, dashboard, charts), the SQL they     *)
(* build and the PostgreSQL store they read.                               *)
(*                                                                         *)
(* Query-string values, SQL text values and driver results are character   *)
(* sequences (<<"4","2">> is "42"); money is kept in cents; a calendar     *)
(* date is the integer yyyymmdd.                                           *)
(***************************************************************************)
EXTENDS Integers, Sequences, FiniteSets, TLC

(***************************************************************************)
(* Bounds of the explored store families                                   *)
(***************************************************************************)
MaxCustomers == 3        \* customers in the customer-listing stores
MaxCustOrders == 2       \* orders in the customer-listing stores
MaxStamp == 2            \* distinct created_at values
MaxListOrders == 2       \* orders in the order-listing stores
MaxDate == 2             \* distinct order dates in the order-listing stores
MaxOrders == 3           \* orders in the dashboard stores
MaxBaseOrders == 2       \* orders in the stores of the all-endpoint specification
MaxChartOrders == 3      \* orders in the stores of the chart specifications
MaxViewOrders == 3       \* orders in the stores behind the Dashboard component
MaxTrendFetches == 2     \* trend requests one Dashboard component sends
MaxTableOrders == 2      \* orders in the stores behind the OrdersTable component
MaxTableFetches == 3     \* order listing requests one OrdersTable component sends
MaxSignals == 2          \* signals and pool errors delivered to one process
MaxTimers == 4           \* setTimeout calls of the chatbot widget polling
MaxTrail == 4            \* tab changes and key presses remembered by the navigation
MaxChartDay == 3         \* order dates of the chart stores: Jan 14 .. Jan 14 + MaxChartDay

(***************************************************************************)
(* Characters and strings                                                  *)
(***************************************************************************)
Digits == <<"0", "1", "2", "3", "4", "5", "6", "7", "8", "9">>

IsDigit(c) == \E i \in 1..10 : Digits[i] = c

IsSpace(c) == c \in {" ", "\t", "\n"}

Lower(s) ==
    LET LowerChars == <<"a", "b", "c", "d", "e", "f", "g", "h", "i", "j", "k", "l", "m",
                        "n", "o", "p", "q", "r", "s", "t", "u", "v", "w", "x", "y", "z">>
        UpperChars == <<"A", "B", "C", "D", "E", "F", "G", "H", "I", "J", "K", "L", "M",
                        "N", "O", "P", "Q", "R", "S", "T", "U", "V", "W", "X", "Y", "Z">>
        \* String.prototype.toLowerCase on one character (ILIKE folds case the same way)
        LowerChar(c) ==
            IF \E i \in 1..26 : UpperChars[i] = c
            THEN LowerChars[CHOOSE i \in 1..26 : UpperChars[i] = c]
            ELSE c
    IN  [i \in 1..Len(s) |-> LowerChar(s[i])]

RECURSIVE TrimStart(_)
TrimStart(s) ==
    IF Len(s) > 0 /\ IsSpace(s[1]) THEN TrimStart(Tail(s)) ELSE s

RECURSIVE TrimEnd(_)
TrimEnd(s) ==
    IF Len(s) > 0 /\ IsSpace(s[Len(s)]) THEN TrimEnd(SubSeq(s, 1, Len(s) - 1)) ELSE s

\* String.prototype.trim
Trim(s) == TrimEnd(TrimStart(s))

\* a JavaScript string is truthy iff it is not empty; a missing query
\* parameter (undefined) is modelled as the empty string: `x || ''`
Truthy(s) == Len(s) > 0

\* s contains sub as a contiguous substring
Contains(s, sub) ==
    \E i \in 0..(Len(s) - Len(sub)) : SubSeq(s, i + 1, i + Len(sub)) = sub

(***************************************************************************)
(* Number parsing and formatting                                           *)
(***************************************************************************)
\* a JavaScript number: NaN, a finite integer val, or (inf) Infinity with the
\* sign val
NaN == [nan |-> TRUE, val |-> 0, inf |-> FALSE]

Num(v) == [nan |-> FALSE, val |-> v, inf |-> FALSE]

Infinity(sign) == [nan |-> FALSE, val |-> sign, inf |-> TRUE]

RECURSIVE ScanDigits(_, _, _)
ScanDigits(s, i, acc) ==
    LET DigitVal(c) == (CHOOSE k \in 1..10 : Digits[k] = c) - 1
    IN  IF i > Len(s) \/ ~IsDigit(s[i])
        THEN [n |-> acc, next |-> i]
        ELSE ScanDigits(s, i + 1, acc * 10 + DigitVal(s[i]))

\* JavaScript parseInt(string): leading white space, an optional sign, then
\* the longest run of decimal digits; NaN when there is no digit.  The
\* result is an IEEE double: a run of 310 or more significant digits is
\* above Number.MAX_VALUE (1.797e308) and gives Infinity.  Runs between 10
\* and 309 digits are outside the modelled inputs.
parseInt(s) ==
    LET \* index after the run of characters in ok that starts at from
        RunEnd(str, from, ok) ==
            CHOOSE j \in from..(Len(str) + 1) :
                /\ \A k \in from..(j - 1) : str[k] \in ok
                /\ j > Len(str) \/ str[j] \notin ok
        \* number of significant digits of the digit run of str that starts at from
        SignificantDigits(str, from) ==
            LET first == RunEnd(str, from, {"0"})
            IN  RunEnd(s, first, {Digits[k] : k \in 1..10}) - first
        t == TrimStart(s)
        signed == Len(t) > 0 /\ t[1] \in {"-", "+"}
        start == IF signed THEN 2 ELSE 1
        sign == IF signed /\ t[1] = "-" THEN 0 - 1 ELSE 1
        r == ScanDigits(t, start, 0)
    IN  IF SignificantDigits(t, start) >= 310 THEN Infinity(sign)
        ELSE IF r.next = start THEN NaN
        ELSE Num(sign * r.n)

\* JavaScript parseFloat on a PostgreSQL numeric string, in cents: integer
\* part, then at most two fraction digits
parseFloat(s) ==
    LET t == TrimStart(s)
        signed == Len(t) > 0 /\ t[1] \in {"-", "+"}
        start == IF signed THEN 2 ELSE 1
        r == ScanDigits(t, start, 0)
        hasDot == r.next <= Len(t) /\ t[r.next] = "."
        f == IF hasDot THEN ScanDigits(t, r.next + 1, 0) ELSE [n |-> 0, next |-> r.next]
        nfrac == IF hasDot THEN f.next - (r.next + 1) ELSE 0
        frac == IF nfrac = 0 THEN 0
                ELSE IF nfrac = 1 THEN f.n * 10
                ELSE ScanDigits(SubSeq(t, r.next + 1, r.next + 2), 1, 0).n
        cents == r.n * 100 + frac
    IN  IF r.next = start /\ nfrac = 0 THEN NaN
        ELSE Num(IF signed /\ t[1] = "-" THEN 0 - cents ELSE cents)

\* `parseInt(x) || d` as a JavaScript number: NaN and 0 are falsy, Infinity
\* is truthy
OrNumber(p, d) == IF p.nan \/ (~p.inf /\ p.val = 0) THEN Num(d) ELSE p

\* `parseInt(x) || d` where the result is finite
OrDefault(p, d) == OrNumber(p, d).val

RECURSIVE NatToStr(_)
NatToStr(n) ==
    IF n < 10 THEN <<Digits[n + 1]>>
    ELSE Append(NatToStr(n \div 10), Digits[(n % 10) + 1])

\* Number.prototype.toString and the text form of a PostgreSQL bigint
IntToStr(n) == IF n < 0 THEN <<"-">> \o NatToStr(0 - n) ELSE NatToStr(n)

\* SQL NULL as the driver delivers it (JavaScript null)
Null == <<"NULL">>

\* COALESCE(x, 0)
Coalesce0(v) == IF v = Null THEN <<"0">> ELSE v

\* Math.floor(a / b)
MathFloorDiv(a, b) == a \div b

\* Math.ceil(a / b) for a >= 0, b >= 1
MathCeilDiv(a, b) == (a + b - 1) \div b

(***************************************************************************)
(* The store: customers and orders tables                                  *)
(***************************************************************************)
sCompleted == <<"c", "o", "m", "p", "l", "e", "t", "e", "d">>

sShipped == <<"s", "h", "i", "p", "p", "e", "d">>

sPending == <<"p", "e", "n", "d", "i", "n", "g">>

\* the i-th order date of the explored stores (2024-01-15, 2024-01-16, ...)
DateOfDay(i) == 20240114 + i

OrderRow(i, cid, date, status, stamp) ==
    [status |-> status,
     id |-> i,
     created_at |-> stamp,
     customer_id |-> cid,
     order_date |-> date,
     total |-> <<29999, 8999, 14950, 19999, 39999>>[((i - 1) % 5) + 1],
     payment_method |-> << <<"c", "r", "e", "d", "i", "t", "_", "c", "a", "r", "d">>,
                           <<"c", "a", "s", "h", "_", "o", "n", "_",
                             "d", "e", "l", "i", "v", "e", "r", "y">>,
                           <<"p", "a", "y", "p", "a", "l">>,
                           Null >>[((i - 1) % 4) + 1]]

\* every customers table with n rows whose created_at values lie in Stamps;
\* created_at is stamped at insertion, so it does not decrease with the id
CustomerTables(n, Stamps) ==
    LET CustomerRow(i, stamp) ==
            [id |-> i,
             created_at |-> stamp,
             name |-> << <<"A", "l", " ", "B">>, <<"B", "o", "b">>, <<"C", "y", "_", "D">>,
                         <<"A", "n", "n">> >>[((i - 1) % 4) + 1],
             email |-> << <<"a", "l", "@", "x">>, <<"b", "o", "b", "@", "x">>, <<"c", "y", "@", "x">>,
                          <<"A", "N", "N", "@", "x">> >>[((i - 1) % 4) + 1]]
    IN  {[i \in 1..n |-> CustomerRow(i, f[i])] :
            f \in {g \in [1..n -> Stamps] : \A i, j \in 1..n : i < j => g[i] <= g[j]}}

\* every orders table with m rows referencing customers 1..nCust; as in the
\* seed data, orders are entered in the order of their dates
OrderTables(m, nCust, StatusSet, DaySet, Stamps) ==
    {[i \in 1..m |-> OrderRow(i, f[i].c, DateOfDay(f[i].d), f[i].s, f[i].t)] :
        f \in {g \in [1..m -> [c : 1..nCust, s : StatusSet, d : DaySet, t : Stamps]] :
                  \A i, j \in 1..m : i < j => g[i].d <= g[j].d}}

Range(f) == {f[i] : i \in DOMAIN f}

RECURSIVE SumTotal(_)
SumTotal(S) ==
    IF S = {} THEN 0
    ELSE LET o == CHOOSE x \in S : TRUE IN o.total + SumTotal(S \ {o})

(***************************************************************************)
(* PostgreSQL: value input, LIKE, ORDER BY, LIMIT/OFFSET                   *)
(***************************************************************************)
\* a bound parameter as node-postgres sends it
PText(s) == [s |-> s, n |-> 0, t |-> "text"]

PNumber(n) == [s |-> <<>>, n |-> n, t |-> "number"]

ParamText(p) == IF p.t = "number" THEN IntToStr(p.n) ELSE p.s

\* integer input: optional white space, optional sign, digits, nothing else
PgInteger(s) ==
    LET t == Trim(s)
        signed == Len(t) > 0 /\ t[1] \in {"-", "+"}
        start == IF signed THEN 2 ELSE 1
        r == ScanDigits(t, start, 0)
    IN  IF r.next = start \/ r.next <= Len(t) THEN [val |-> 0, ok |-> FALSE]
        ELSE [val |-> IF signed /\ t[1] = "-" THEN 0 - r.n ELSE r.n, ok |-> TRUE]

\* date input in ISO form YYYY-MM-DD
PgDate(s) ==
    LET t == Trim(s)
        shape == /\ Len(t) = 10
                 /\ t[5] = "-" /\ t[8] = "-"
                 /\ \A i \in {1, 2, 3, 4, 6, 7, 9, 10} : IsDigit(t[i])
        y == ScanDigits(SubSeq(t, 1, 4), 1, 0).n
        m == ScanDigits(SubSeq(t, 6, 7), 1, 0).n
        d == ScanDigits(SubSeq(t, 9, 10), 1, 0).n
    IN  IF shape /\ m \in 1..12 /\ d \in 1..31
        THEN [val |-> y * 10000 + m * 100 + d, ok |-> TRUE]
        ELSE [val |-> 0, ok |-> FALSE]

\* text LIKE pattern: % matches any run, _ any one character, \ escapes
RECURSIVE Like(_, _)
Like(text, pat) ==
    IF Len(pat) = 0 THEN Len(text) = 0
    ELSE IF pat[1] = "%"
         THEN Like(text, Tail(pat)) \/ (Len(text) > 0 /\ Like(Tail(text), pat))
    ELSE IF pat[1] = "\\" /\ Len(pat) >= 2
         THEN Len(text) > 0 /\ text[1] = pat[2] /\ Like(Tail(text), Tail(Tail(pat)))
    ELSE Len(text) > 0 /\ (pat[1] = "_" \/ pat[1] = text[1])
                      /\ Like(Tail(text), Tail(pat))

\* every enumeration of the finite set S
Perms(S) ==
    {p \in [1..Cardinality(S) -> S] : \A i, j \in 1..Cardinality(S) : i # j => p[i] # p[j]}

(***************************************************************************)
(* State                                                                   *)
(***************************************************************************)
VARIABLES
    customers,   \* customers table: sequence of rows, id = position
    orders,      \* orders table: sequence of rows, id = position
    today,       \* CURRENT_DATE of the store
    pc,          \* "idle", "await" (handler suspended in await), "responded", "crashed"
    req,         \* query string of the request being handled
    locals,      \* page, limit, offset, days of the running handler
    queries,     \* statements handed to pool.query for this request
    resp,        \* responses written for this request
    sent,        \* number of statements sent for this request
    alive,       \* the server process is running
    crawl,       \* a client walking through the pages of a listing
    log,         \* console.error lines written for this request
    config,      \* the configuration file read at startup
    exitCode,    \* status of process.exit, -1 while the process runs
    busy,        \* pool connections checked out by other requests in flight
    view,        \* state of the Dashboard component in the browser
    table,       \* state of the OrdersTable component in the browser
    app,         \* state of the App shell: active tab and chatbot widget polling
    pool         \* shutdown of the connection pool: calls of pool.end() and their outcome

vars == <<customers, orders, today, pc, req, locals, queries, resp, sent, alive, crawl,
          log, config, exitCode, busy, view, table, app, pool>>

(***************************************************************************)
(* SQL statements and their execution                                      *)
(***************************************************************************)
Clause(col, op, ph) == [col |-> col, op |-> op, ph |-> ph, ph2 |-> 0]

\* kind names the SELECT ... FROM part; where holds the AND-ed predicates with
\* their placeholders; limitPh/offsetPh are the placeholders of LIMIT and
\* OFFSET (0: no such clause); days is the text interpolated into the SQL
\* text between `INTERVAL '` and ` days'` (empty where nothing is interpolated)
Sql(kind, where, limitPh, offsetPh, days) ==
    [kind |-> kind, where |-> where, limitPh |-> limitPh, offsetPh |-> offsetPh,
     days |-> days]

\* FROM orders WHERE ...
OrdersWhere(where, params) ==
    LET OrderHolds(cl, ps, o) ==
            CASE cl.col = "status" /\ cl.op = "=" -> o.status = ParamText(ps[cl.ph])
              [] cl.col = "status" /\ cl.op = "IN" ->
                    o.status \in {ParamText(ps[cl.ph]), ParamText(ps[cl.ph2])}
              [] cl.col = "customer_id" -> o.customer_id = PgInteger(ParamText(ps[cl.ph])).val
              [] cl.col = "order_date" /\ cl.op = ">=" ->
                    o.order_date >= PgDate(ParamText(ps[cl.ph])).val
              [] cl.col = "order_date" /\ cl.op = "<=" ->
                    o.order_date <= PgDate(ParamText(ps[cl.ph])).val
              [] OTHER -> FALSE
    IN  {o \in Range(orders) : \A i \in 1..Len(where) : OrderHolds(where[i], params, o)}

\* FROM orders o JOIN customers c ON o.customer_id = c.id WHERE ...
OrdersJoinCustomers(where, params) ==
    {o \in OrdersWhere(where, params) : \E c \in Range(customers) : c.id = o.customer_id}

OrdersOf(c) == {o \in Range(orders) : o.customer_id = c.id}

\* SUM(total) over a set of orders: NULL over no rows
SqlSum(S) ==
    LET \* text form of a PostgreSQL numeric(10,2) value given in cents
        NumericToStr(cents) ==
            NatToStr(cents \div 100) \o <<".">> \o
            <<Digits[((cents % 100) \div 10) + 1], Digits[(cents % 10) + 1]>>
    IN  IF S = {} THEN Null ELSE NumericToStr(SumTotal(S))

\* the select list with SUM(o.total) not wrapped in COALESCE
CustomerListRowNullSum(c) ==
    [id |-> c.id,
     created_at |-> c.created_at,
     name |-> c.name,
     email |-> c.email,
     order_count |-> IntToStr(Cardinality(OrdersOf(c))),
     total_spent |-> SqlSum(OrdersOf(c))]

\* SELECT c.*, COUNT(o.id) as order_count, COALESCE(SUM(o.total), 0) as total_spent
CustomerListRow(c) ==
    [id |-> c.id,
     created_at |-> c.created_at,
     name |-> c.name,
     email |-> c.email,
     order_count |-> IntToStr(Cardinality(OrdersOf(c))),
     total_spent |-> Coalesce0(SqlSum(OrdersOf(c)))]

Failed == [ok |-> FALSE, rows |-> <<>>]

Rows(rows) == [ok |-> TRUE, rows |-> rows]

OrdersWithStatus(s) == {o \in Range(orders) : o.status = s}

DayNumber(d) ==
    ((d \div 10000) - 2024) * 366
        + <<0, 31, 60, 91, 121, 152, 182, 213, 244, 274, 305, 335>>[(d \div 100) % 100]
        + (d % 100)

\* the results the store can produce for a statement
Exec(sql, params) ==
    LET \* FROM customers c WHERE ...
        CustomersWhere(where, vals) ==
            LET \* text ILIKE pattern
                ILike(text, pat) == Like(Lower(text), Lower(pat))
                CustomerHolds(cl, ps, c) ==
                    CASE cl.col = "name_or_email" /\ cl.op = "ILIKE" ->
                            ILike(c.name, ParamText(ps[cl.ph])) \/ ILike(c.email, ParamText(ps[cl.ph]))
                      [] OTHER -> FALSE
            IN  {c \in Range(customers) : \A i \in 1..Len(where) : CustomerHolds(where[i], vals, c)}
        \* LIMIT lim OFFSET off applied to an ordered result
        LimitOffset(p, lim, off) ==
            IF off >= Len(p) THEN <<>>
            ELSE SubSeq(p, off + 1, IF off + lim < Len(p) THEN off + lim ELSE Len(p))
        \* ORDER BY key DESC: rows with equal keys may come in any order
        \* (key maps each row to its sort key)
        OrderByDesc(key) ==
            {p \in Perms(DOMAIN key) : \A i, j \in 1..Len(p) : i < j => key[p[i]] >= key[p[j]]}
        CompletedOf(c) == {o \in OrdersOf(c) : o.status = sCompleted}
        Statuses == {o.status : o \in Range(orders)}
        RowCount(ph, vals) == PgInteger(ParamText(vals[ph])).val
        \* a one-row result of an aggregate without GROUP BY
        Scalar(v) == Rows(<<[value |-> v]>>)
        \* the select list f applied to each row of p
        MapSeq(p, f) == [i \in 1..Len(p) |-> f[p[i]]]
        \* LIMIT and OFFSET values must be non-negative integers
        RowCountValid(ph) ==
            ph # 0 => LET v == PgInteger(ParamText(params[ph])) IN v.ok /\ v.val >= 0
        ClauseValid(cl) ==
            CASE cl.col = "customer_id" -> PgInteger(ParamText(params[cl.ph])).ok
              [] cl.col = "order_date" -> PgDate(ParamText(params[cl.ph])).ok
              [] OTHER -> TRUE
        Max(S) == CHOOSE x \in S : \A y \in S : y <= x
        \* number of parameters the statement requires
        NumPlaceholders ==
            Max({0, sql.limitPh, sql.offsetPh}
                \cup {sql.where[i].ph : i \in 1..Len(sql.where)}
                \cup {sql.where[i].ph2 : i \in 1..Len(sql.where)})
        \* the statement binds and runs without a database error
        Runs ==
            /\ Len(params) = NumPlaceholders
            /\ \A i \in 1..Len(sql.where) : ClauseValid(sql.where[i])
            /\ RowCountValid(sql.limitPh)
            /\ RowCountValid(sql.offsetPh)
            /\ sql.kind = "orders_over_time" => PgInteger(sql.days).ok
        OrderDates(S) == {o.order_date : o \in S}
        \* ORDER BY key ASC
        OrderByAsc(key) ==
            {p \in Perms(DOMAIN key) : \A i, j \in 1..Len(p) : i < j => key[p[i]] <= key[p[j]]}
        \* customers c LEFT JOIN orders o ... GROUP BY c.id: a customer without
        \* orders keeps its group
        LeftJoinGroups(cs) == cs
        \* SELECT o.*, c.name as customer_name, c.email as customer_email
        OrderListRow(o) ==
            LET c == CHOOSE c \in Range(customers) : c.id = o.customer_id
            IN  [status |-> o.status,
                 id |-> o.id,
                 created_at |-> o.created_at,
                 customer_id |-> o.customer_id,
                 order_date |-> o.order_date,
                 total |-> o.total,
                 payment_method |-> o.payment_method,
                 customer_name |-> c.name,
                 customer_email |-> c.email]
    IN  IF ~Runs THEN {Failed}
        ELSE CASE sql.kind = "orders_rows" ->
                LET joined == OrdersJoinCustomers(sql.where, params)
                IN  {Rows(MapSeq(LimitOffset(p, RowCount(sql.limitPh, params),
                                             RowCount(sql.offsetPh, params)),
                                 [o \in joined |-> OrderListRow(o)])) :
                        p \in OrderByDesc([o \in joined |-> o.created_at])}
          [] sql.kind = "orders_count" ->
                {Scalar(IntToStr(Cardinality(OrdersJoinCustomers(sql.where, params))))}
          [] sql.kind = "customers_rows" ->
                LET groups == LeftJoinGroups(CustomersWhere(sql.where, params))
                IN  {Rows(MapSeq(LimitOffset(p, RowCount(sql.limitPh, params),
                                             RowCount(sql.offsetPh, params)),
                                 [c \in groups |-> CustomerListRow(c)])) :
                        p \in OrderByDesc([c \in groups |-> c.created_at])}
          [] sql.kind = "customers_count" ->
                {Scalar(IntToStr(Cardinality(CustomersWhere(sql.where, params))))}
          [] sql.kind = "count_orders" ->
                {Scalar(IntToStr(Cardinality(OrdersWhere(sql.where, params))))}
          [] sql.kind = "count_customers" ->
                {Scalar(IntToStr(Cardinality(Range(customers))))}
          [] sql.kind = "sum_orders" ->
                {Scalar(Coalesce0(SqlSum(OrdersWhere(sql.where, params))))}
          [] sql.kind = "revenue_breakdown" ->
                {Rows(MapSeq(p, [s \in Statuses |->
                                    [status |-> s,
                                     order_count |-> IntToStr(Cardinality(OrdersWithStatus(s))),
                                     total_revenue |-> Coalesce0(SqlSum(OrdersWithStatus(s)))]])) :
                    p \in OrderByDesc([s \in Statuses |-> SumTotal(OrdersWithStatus(s))])}
          [] sql.kind = "order_status" ->
                {Rows(MapSeq(p, [s \in Statuses |->
                                    [status |-> s,
                                     count |-> IntToStr(Cardinality(OrdersWithStatus(s))),
                                     total_value |-> SqlSum(OrdersWithStatus(s))]])) :
                    p \in OrderByDesc([s \in Statuses |-> Cardinality(OrdersWithStatus(s))])}
          [] sql.kind = "orders_over_time" ->
                LET inWindow == {o \in Range(orders) :
                                    DayNumber(o.order_date)
                                        >= DayNumber(today) - PgInteger(sql.days).val}
                    onDate(d) == {o \in inWindow : o.order_date = d}
                IN  {Rows(MapSeq(p, [d \in OrderDates(inWindow) |->
                                        [date |-> d,
                                         order_count |-> IntToStr(Cardinality(onDate(d))),
                                         revenue |-> SqlSum(onDate(d))]])) :
                        p \in OrderByAsc([d \in OrderDates(inWindow) |-> d])}
          [] sql.kind = "revenue_by_customer" ->
                LET ranked == {c \in Range(customers) : CompletedOf(c) # {}}
                IN  {Rows(MapSeq(LimitOffset(p, RowCount(sql.limitPh, params), 0),
                                 [c \in ranked |->
                                    [name |-> c.name,
                                     order_count |-> IntToStr(Cardinality(CompletedOf(c))),
                                     total_revenue |-> SqlSum(CompletedOf(c))]])) :
                        p \in OrderByDesc([c \in ranked |-> SumTotal(CompletedOf(c))])}
          [] OTHER -> {Failed}

(***************************************************************************)
(* Route handlers                                                          *)
(***************************************************************************)
\* req.query of a request: a missing parameter is the empty string
Q(endpoint) ==
    [status |-> <<>>,
     customer_id |-> <<>>,
     days |-> <<>>,
     endpoint |-> endpoint,
     page |-> <<>>,
     limit |-> <<>>,
     search |-> <<>>,
     start_date |-> <<>>,
     end_date |-> <<>>]

NoReq == Q("none")

Locals(page, limit, offset, days) ==
    [days |-> days, page |-> page, limit |-> limit, offset |-> offset]

NoLocals == Locals(0, 0, 0, Num(0))

\* no error object
NoError == "none"

\* the error a statement is rejected with when the store refuses it
SqlError == "error: statement rejected by the database"

\* errors of a statement that come from outside the SQL
FaultCauses == {"connect ECONNREFUSED", "Connection terminated unexpectedly"}

\* a statement handed to pool.query
Query(sql, params) ==
    [params |-> params,
     rows |-> <<>>,
     sql |-> sql,
     st |-> "pending",
     fault |-> FALSE,
     err |-> NoError]

\* the filter blocks with the start_date comparison pasted into end_date
AddFilterSameBound(b, f) ==
    IF Truthy(f.v)
    THEN [query |-> Append(b.query, Clause(f.col, IF f.col = "order_date" THEN ">=" ELSE f.op,
                                           b.paramIndex)),
          paramIndex |-> b.paramIndex + 1,
          countQuery |-> Append(b.countQuery,
                                Clause(f.col, IF f.col = "order_date" THEN ">=" ELSE f.op,
                                       b.paramIndex)),
          queryParams |-> Append(b.queryParams, PText(f.v))]
    ELSE b

\* one `if (filter) { query += ...; countQuery += ...; queryParams.push(...);
\* paramIndex++ }` block
AddFilter(b, f) ==
    IF Truthy(f.v)
    THEN [query |-> Append(b.query, Clause(f.col, f.op, b.paramIndex)),
          paramIndex |-> b.paramIndex + 1,
          countQuery |-> Append(b.countQuery, Clause(f.col, f.op, b.paramIndex)),
          queryParams |-> Append(b.queryParams, PText(f.v))]
    ELSE b

RECURSIVE AddFilters(_, _, _)
AddFilters(fs, i, b) ==
    IF i > Len(fs) THEN b ELSE AddFilters(fs, i + 1, AddFilter(b, fs[i]))

\* queryParams.slice(0, -1)
OrdersCountParamsKeepLimit(queryParams) == SubSeq(queryParams, 1, Len(queryParams) - 1)

\* queryParams.slice(0, -2)
OrdersCountParams(queryParams) == SubSeq(queryParams, 1, Len(queryParams) - 2)

\* `parseInt(req.query.page) || 1`
PageOf(q) == OrDefault(parseInt(q.page), 1)

\* `parseInt(req.query.limit) || 10`
LimitOf(q) == OrDefault(parseInt(q.limit), 10)

OffsetOf(q) == (PageOf(q) - 1) * LimitOf(q)

\* GET /api/orders up to the await
OrdersHandler(q) ==
    LET \* the four optional filters of the order listing, in the order the handler
        \* tests them
        OrdersFilters(query) ==
            << [v |-> query.status, col |-> "status", op |-> "="],
               [v |-> query.customer_id, col |-> "customer_id", op |-> "="],
               [v |-> query.start_date, col |-> "order_date", op |-> ">="],
               [v |-> query.end_date, col |-> "order_date", op |-> "<="] >>
        b == AddFilters(OrdersFilters(q), 1,
                        [query |-> <<>>,
                         paramIndex |-> 1,
                         countQuery |-> <<>>,
                         queryParams |-> <<>>])
        queryParams == b.queryParams \o <<PNumber(LimitOf(q)), PNumber(OffsetOf(q))>>
    IN  [locals |-> Locals(PageOf(q), LimitOf(q), OffsetOf(q), Num(0)),
         queries |-> << Query(Sql("orders_rows", b.query, b.paramIndex, b.paramIndex + 1, <<>>),
                              queryParams),
                        Query(Sql("orders_count", b.countQuery, 0, 0, <<>>),
                              OrdersCountParams(queryParams)) >>]

\* GET /api/customers up to the await
CustomersHandler(q) ==
    LET \* the search predicate is applied iff req.query.search is a non-empty string
        SearchApplies(search) == Truthy(search)
        \* `%${search}%`
        SearchPattern(search) == <<"%">> \o search \o <<"%">>
        where == IF SearchApplies(q.search)
                 THEN <<Clause("name_or_email", "ILIKE", 1)>> ELSE <<>>
        countParams == IF SearchApplies(q.search)
                       THEN <<PText(SearchPattern(q.search))>> ELSE <<>>
        queryParams == countParams \o <<PNumber(LimitOf(q)), PNumber(OffsetOf(q))>>
    IN  [locals |-> Locals(PageOf(q), LimitOf(q), OffsetOf(q), Num(0)),
         queries |-> << Query(Sql("customers_rows", where, Len(countParams) + 1,
                                  Len(countParams) + 2, <<>>), queryParams),
                        Query(Sql("customers_count", where, 0, 0, <<>>), countParams) >>]

\* revenue counted over completed orders only
RevenueStatusesCompletedOnly == <<sCompleted, sCompleted>>

\* the statuses whose orders count as revenue
RevenueStatuses == <<sCompleted, sShipped>>

\* GET /api/dashboard up to the await
DashboardHandler(q) ==
    LET ClauseIn(col, ph, ph2) == [col |-> col, op |-> "IN", ph |-> ph, ph2 |-> ph2]
    IN  [locals |-> NoLocals,
         queries |-> << Query(Sql("count_orders", <<>>, 0, 0, <<>>), <<>>),
                        Query(Sql("count_customers", <<>>, 0, 0, <<>>), <<>>),
                        Query(Sql("sum_orders", <<ClauseIn("status", 1, 2)>>, 0, 0, <<>>),
                              <<PText(RevenueStatuses[1]), PText(RevenueStatuses[2])>>),
                        Query(Sql("count_orders", <<Clause("status", "=", 1)>>, 0, 0, <<>>),
                              <<PText(sPending)>>) >>]

\* GET /api/charts/orders-over-time up to the await
OrdersOverTimeHandler(q) ==
    LET \* `${x}` in a template literal, x a JavaScript number
        NumberToString(p) ==
            IF p.nan THEN <<"N", "a", "N">>
            ELSE IF p.inf
                 THEN (IF p.val < 0 THEN <<"-">> ELSE <<>>)
                      \o <<"I", "n", "f", "i", "n", "i", "t", "y">>
            ELSE IntToStr(p.val)
        days == OrNumber(parseInt(q.days), 30)
    IN  [locals |-> Locals(0, 0, 0, days),
         queries |-> << Query(Sql("orders_over_time", <<>>, 0, 0, NumberToString(days)),
                              <<>>) >>]

\* GET /api/charts/revenue-by-customer up to the await
RevenueByCustomerHandler(q) ==
    [locals |-> Locals(0, LimitOf(q), 0, Num(0)),
     queries |-> << Query(Sql("revenue_by_customer", <<>>, 1, 0, <<>>),
                          <<PNumber(LimitOf(q))>>) >>]

ErrorMessage(endpoint) ==
    CASE endpoint = "orders" -> "Failed to fetch orders"
      [] endpoint = "customers" -> "Failed to fetch customers"
      [] endpoint = "dashboard" -> "Failed to fetch dashboard metrics"
      [] endpoint = "revenue-breakdown" -> "Failed to fetch revenue breakdown"
      [] endpoint = "orders-over-time" -> "Failed to fetch orders over time data"
      [] endpoint = "revenue-by-customer" -> "Failed to fetch revenue by customer data"
      [] endpoint = "order-status" -> "Failed to fetch order status data"
      [] OTHER -> "Something went wrong!"

\* console.error(tag, error)
LogLine(endpoint, error) ==
    LET \* the first argument of console.error in each catch block
        LogTag(route) ==
            CASE route = "orders" -> "Orders fetch error:"
              [] route = "customers" -> "Customers fetch error:"
              [] route = "dashboard" -> "Dashboard metrics error:"
              [] route = "revenue-breakdown" -> "Revenue breakdown error:"
              [] route = "orders-over-time" -> "Orders over time error:"
              [] route = "revenue-by-customer" -> "Revenue by customer error:"
              [] route = "order-status" -> "Order status error:"
              [] OTHER -> "stack"
    IN  [tag |-> LogTag(endpoint), detail |-> error]

\* the caught error copied into the response body
OnErrorWithDetail(endpoint) ==
    [status |-> 500,
     body |-> [error |-> (CHOOSE e \in {queries[i].err : i \in 1..Len(queries)} : e # NoError)]]

\* res.status(500).json({ error: ... }) in the catch block
OnError(endpoint) == [status |-> 500, body |-> [error |-> ErrorMessage(endpoint)]]

\* the dashboard handler without its try/catch
HasCatchExceptDashboard(endpoint) ==
    endpoint \in {"orders", "customers", "revenue-breakdown",
                  "orders-over-time", "revenue-by-customer", "order-status"}

\* the body of every data handler is wrapped in try/catch
HasCatch(endpoint) ==
    endpoint \in {"orders", "customers", "dashboard", "revenue-breakdown",
                  "orders-over-time", "revenue-by-customer", "order-status"}

(***************************************************************************)
(* Process start: server.cjs requires the routes, which require            *)
(* db/connection.cjs, then calls app.listen                                *)
(***************************************************************************)
RequiredVars == {"DB_HOST", "DB_PORT", "DB_NAME", "DB_USER", "DB_PASSWORD"}

\* envVars.X of a key the file has no line for
Undefined == "undefined"

\* a file with a value for every connection variable
FullConfig == [vars |-> [v \in RequiredVars |-> "value"], exists |-> TRUE]

\* module initialisation of db/connection.cjs: exit(1) without the file;
\* otherwise every process.env.DB_* is assigned whatever the file gave, the
\* pool object is created (it opens no connection yet) and start-up goes on
LoadConnection ==
    /\ pc = "boot"
    /\ IF ~config.exists
       THEN /\ pc' = "exited"
            /\ exitCode' = 1
            /\ alive' = FALSE
            /\ log' = Append(log, LogLine("startup", ".env.local file not found"))
       ELSE /\ pc' = "loaded"
            /\ UNCHANGED <<exitCode, alive, log>>
    /\ UNCHANGED <<config, busy, customers, orders, today, req, locals, queries, resp, sent,
                   crawl, view, table, app, pool>>

\* app.listen(PORT)
Listen ==
    /\ pc = "loaded"
    /\ pc' = "idle"
    /\ UNCHANGED <<config, exitCode, busy, customers, orders, today, req, locals, queries,
                   resp, sent, alive, crawl, view, table, app, pool, log>>

\* the pool before any shutdown: no pool.end() call, no exit
NoPool == [events |-> <<>>, settled |-> {}, failed |-> FALSE, code |-> 0 - 1]

\* a signal or an idle-client error of the pool arrives: gracefulShutdown up to
\* its await, which calls pool.end() whatever was called before
gracefulShutdown(event) ==
    /\ alive
    /\ pc \notin {"boot", "exited", "crashed"}
    /\ Len(pool.events) < MaxSignals
    /\ pool' = [pool EXCEPT !.events = Append(@, event)]
    /\ UNCHANGED <<config, exitCode, busy, customers, orders, today, pc, req, locals,
                   queries, resp, sent, alive, crawl, view, table, app, log>>

\* the promise of the i-th pool.end() call settles and gracefulShutdown exits:
\* 0 when it resolved, 1 when it rejected. The first call resolves when the
\* pool has closed and rejects when closing fails; what a repeated call gives
\* is decided by the driver
PoolEndSettles(i, resolved) ==
    /\ alive
    /\ i \in DOMAIN pool.events
    /\ i \notin pool.settled
    /\ pool' = [pool EXCEPT !.settled = @ \cup {i},
                            !.failed = @ \/ (i = 1 /\ ~resolved),
                            !.code = IF resolved THEN 0 ELSE 1]
    /\ exitCode' = IF resolved THEN 0 ELSE 1
    /\ alive' = FALSE
    /\ pc' = "exited"
    /\ UNCHANGED <<config, busy, customers, orders, today, req, locals, queries, resp,
                   sent, crawl, view, table, app, log>>

\* the HTTP server accepts requests
Listening == alive /\ pc \notin {"boot", "loaded", "exited", "crashed"}

\* statements that hold a pool connection and run in the store
Pending == {i \in 1..Len(queries) : queries[i].st = "pending"}

\* statements waiting in the pool's queue for a connection
Queued == {i \in 1..Len(queries) : queries[i].st = "queued"}

\* `max` of the pool options
PoolMax == 10

\* connections checked out of the pool
InUse == busy + Cardinality(Pending)

\* the error of a statement that waited connectionTimeoutMillis for a connection
AcquireError == "timeout exceeded when trying to connect"

\* the server is ready for the next request
Accepting == alive /\ pc = "idle"

\* the handler awaits its first statement before sending the next one
DispatchFirstOnly(q, h) ==
    /\ req' = q
    /\ locals' = h.locals
    /\ queries' = SubSeq(h.queries, 1, 1)
    /\ sent' = 1
    /\ resp' = <<>>
    /\ pc' = "await"
    /\ log' = <<>>
    /\ UNCHANGED <<config, exitCode, busy, customers, orders, today, alive>>

\* the handler runs up to its await: every statement is handed to the pool
Dispatch(q, h) ==
    LET \* pool.query for each statement in turn: a statement gets a connection while
        \* fewer than max are checked out and is queued otherwise
        Admit(qs) ==
            [i \in 1..Len(qs) |-> IF busy + i <= PoolMax THEN qs[i]
                                  ELSE [qs[i] EXCEPT !.st = "queued"]]
    IN  /\ req' = q
        /\ locals' = h.locals
        /\ queries' = Admit(h.queries)
        /\ sent' = Len(h.queries)
        /\ resp' = <<>>
        /\ pc' = "await"
        /\ log' = <<>>
        /\ UNCHANGED <<config, exitCode, busy, customers, orders, today, alive>>

GetOrders(q) == Accepting /\ Dispatch(q, OrdersHandler(q)) /\ UNCHANGED <<crawl, view, table, app, pool>>

GetCustomers(q) == Accepting /\ Dispatch(q, CustomersHandler(q)) /\ UNCHANGED <<crawl, view, table, app, pool>>

GetDashboard == Accepting /\ Dispatch(Q("dashboard"), DashboardHandler(Q("dashboard"))) /\ UNCHANGED <<crawl, view, table, app, pool>>

GetRevenueBreakdown ==
    LET \* GET /api/dashboard/revenue-breakdown up to the await
        RevenueBreakdownHandler(q) ==
            [locals |-> NoLocals,
             queries |-> << Query(Sql("revenue_breakdown", <<>>, 0, 0, <<>>), <<>>) >>]
    IN  Accepting /\ Dispatch(Q("revenue-breakdown"), RevenueBreakdownHandler(Q("revenue-breakdown")))
        /\ UNCHANGED <<crawl, view, table, app, pool>>

GetOrdersOverTime(q) == Accepting /\ Dispatch(q, OrdersOverTimeHandler(q)) /\ UNCHANGED <<crawl, view, table, app, pool>>

GetRevenueByCustomer(q) == Accepting /\ Dispatch(q, RevenueByCustomerHandler(q)) /\ UNCHANGED <<crawl, view, table, app, pool>>

GetOrderStatus ==
    LET \* GET /api/charts/order-status up to the await
        OrderStatusHandler(q) ==
            [locals |-> NoLocals,
             queries |-> << Query(Sql("order_status", <<>>, 0, 0, <<>>), <<>>) >>]
    IN  Accepting /\ Dispatch(Q("order-status"), OrderStatusHandler(Q("order-status"))) /\ UNCHANGED <<crawl, view, table, app, pool>>

\* the store answers a statement
QueryDone(i) ==
    /\ i \in Pending
    /\ (config.exists /\ \A v \in RequiredVars : config.vars[v] = "value")
    /\ \E r \in Exec(queries[i].sql, queries[i].params) :
          queries' = [queries EXCEPT ![i].st = IF r.ok THEN "ok" ELSE "failed",
                                     ![i].rows = r.rows,
                                     ![i].err = IF r.ok THEN NoError ELSE SqlError]
    /\ UNCHANGED <<config, exitCode, busy, customers, orders, today, pc, req, locals, resp, sent, alive, crawl, view, table, app, pool, log>>

\* a statement fails for a reason outside the SQL: no connection, timeout
QueryFail(i) ==
    /\ i \in Pending
    /\ \E e \in FaultCauses :
          queries' = [queries EXCEPT ![i].st = "failed", ![i].fault = TRUE, ![i].err = e]
    /\ UNCHANGED <<config, exitCode, busy, customers, orders, today, pc, req, locals, resp, sent, alive, crawl, view, table, app, pool, log>>

\* a connection is released to a queued statement
Grant(i) ==
    /\ i \in Queued
    /\ InUse < PoolMax
    /\ queries' = [queries EXCEPT ![i].st = "pending"]
    /\ UNCHANGED <<config, exitCode, busy, customers, orders, today, pc, req, locals, resp,
                   sent, alive, crawl, view, table, app, pool, log>>

\* a queued statement is never given up
AcquireWaitsForever(i) ==
    /\ FALSE
    /\ UNCHANGED vars

\* the pool gives up a queued statement after connectionTimeoutMillis
AcquireTimeout(i) ==
    /\ i \in Queued
    /\ queries' = [queries EXCEPT ![i].st = "failed", ![i].fault = TRUE,
                                   ![i].err = AcquireError]
    /\ UNCHANGED <<config, exitCode, busy, customers, orders, today, pc, req, locals, resp,
                   sent, alive, crawl, view, table, app, pool, log>>

\* another request in flight checks a connection out
OtherAcquire ==
    /\ alive
    /\ InUse < PoolMax
    /\ busy' = busy + 1
    /\ UNCHANGED <<config, exitCode, customers, orders, today, pc, req, locals, queries,
                   resp, sent, alive, crawl, view, table, app, pool, log>>

\* another request in flight gives its connection back
OtherRelease ==
    /\ busy > 0
    /\ busy' = busy - 1
    /\ UNCHANGED <<config, exitCode, customers, orders, today, pc, req, locals, queries,
                   resp, sent, alive, crawl, view, table, app, pool, log>>

\* the await returns: Promise.all rejects with the first failure, or is
\* fulfilled when every statement succeeded
Settle ==
    LET \* the pagination envelope of both listings
        Pagination(page, limit, countRows) ==
            LET totalCount == parseInt(countRows[1].value).val
                totalPages == MathCeilDiv(totalCount, limit)
            IN  [totalCount |-> totalCount,
                 totalPages |-> totalPages,
                 currentPage |-> page,
                 hasNext |-> page < totalPages,
                 hasPrev |-> page > 1]
        Rejected == \E i \in 1..Len(queries) : queries[i].st = "failed"
        \* res.json(...) after every awaited query succeeded
        OnSuccess(endpoint) ==
            LET \* the metrics object of GET /api/dashboard
                Metrics(qs) ==
                    [totalOrders |-> parseInt(qs[1].rows[1].value).val,
                     totalCustomers |-> parseInt(qs[2].rows[1].value).val,
                     totalRevenue |-> parseFloat(qs[3].rows[1].value).val,
                     pendingOrders |-> parseInt(qs[4].rows[1].value).val]
            IN  [status |-> 200,
                 body |-> CASE endpoint = "orders" ->
                                [orders |-> queries[1].rows,
                                 pagination |-> Pagination(locals.page, locals.limit, queries[2].rows)]
                            [] endpoint = "customers" ->
                                [customers |-> queries[1].rows,
                                 pagination |-> Pagination(locals.page, locals.limit, queries[2].rows)]
                            [] endpoint = "dashboard" -> Metrics(queries)
                            [] OTHER -> queries[1].rows]
    IN  /\ pc = "await"
        /\ Rejected \/ (\A i \in 1..Len(queries) : queries[i].st = "ok")
        /\ IF Rejected /\ ~HasCatch(req.endpoint)
           THEN /\ alive' = FALSE
                /\ pc' = "crashed"
                /\ resp' = resp
                /\ log' = log
           ELSE /\ alive' = alive
                /\ pc' = "responded"
                /\ resp' = Append(resp, IF Rejected THEN OnError(req.endpoint)
                                        ELSE OnSuccess(req.endpoint))
                /\ IF Rejected
                   THEN \E i \in 1..Len(queries) :
                           /\ queries[i].st = "failed"
                           /\ log' = Append(log, LogLine(req.endpoint, queries[i].err))
                   ELSE log' = log
        /\ UNCHANGED <<config, exitCode, busy, customers, orders, today, req, locals, queries, sent, crawl, view, table, app, pool>>

\* the handler returns but the rows it fetched stay in the process
ReturnKeepsRows ==
    /\ pc = "responded"
    /\ Pending = {}
    /\ Queued = {}
    /\ crawl.st # "fetching"
    /\ view.st # "loading"
    /\ \A i \in DOMAIN view.trend : view.trend[i].st # "serving"
    /\ \A i \in DOMAIN table.fetches : table.fetches[i].st # "serving"
    /\ pc' = "idle"
    /\ req' = NoReq
    /\ locals' = NoLocals
    /\ resp' = <<>>
    /\ sent' = 0
    /\ log' = <<>>
    /\ UNCHANGED <<config, exitCode, busy, customers, orders, today, alive, crawl, view, table, app, pool, queries>>

\* the request is over: the handler has returned, every statement it sent has
\* finished, and nothing of the request is kept
Return ==
    /\ pc = "responded"
    /\ Pending = {}
    /\ Queued = {}
    /\ crawl.st # "fetching"
    /\ view.st # "loading"
    /\ \A i \in DOMAIN view.trend : view.trend[i].st # "serving"
    /\ \A i \in DOMAIN table.fetches : table.fetches[i].st # "serving"
    /\ pc' = "idle"
    /\ req' = NoReq
    /\ locals' = NoLocals
    /\ queries' = <<>>
    /\ resp' = <<>>
    /\ sent' = 0
    /\ log' = <<>>
    /\ UNCHANGED <<config, exitCode, busy, customers, orders, today, alive, crawl, view, table, app, pool>>

(***************************************************************************)
(* Routes of server.cjs that send no statement                             *)
(***************************************************************************)
\* a handler that answers without awaiting anything
Respond(q, r, lines) ==
    /\ Accepting
    /\ req' = q
    /\ locals' = NoLocals
    /\ queries' = <<>>
    /\ sent' = 0
    /\ resp' = <<r>>
    /\ pc' = "responded"
    /\ log' = lines
    /\ UNCHANGED <<config, exitCode, busy, customers, orders, today, alive, crawl, view, table, app, pool>>

\* paths no route matches
UnknownPaths == {"/nope", "/api/nope", "/api/orders/7"}

\* errors raised before a route handler runs (body parser, URL decoding)
MiddlewareErrors == {"SyntaxError: Unexpected token", "URIError: Failed to decode param"}

\* app.get('/')
GetRoot ==
    Respond(Q("/"), [status |-> 200,
                     body |-> [message |-> "Customer Order Dashboard API",
                               version |-> "1.0.0"]], <<>>)

\* app.get('/api/health')
GetHealth ==
    Respond(Q("/api/health"), [status |-> 200,
                               body |-> [status |-> "OK", timestamp |-> today]], <<>>)

\* app.use('*'): the 404 handler
NotFound(path) ==
    Respond(Q(path), [status |-> 404, body |-> [error |-> "Route not found"]], <<>>)

\* the error-handling middleware
ErrorMiddleware(e) ==
    Respond(Q("error"), [status |-> 500, body |-> [error |-> "Something went wrong!"]],
            <<LogLine("error", e)>>)

(***************************************************************************)
(* A client that pages through the customer listing                        *)
(***************************************************************************)
NoCrawl == [endpoint |-> "customers", page |-> 0, limit |-> 0, st |-> "off", seen |-> <<>>]

\* apiService.getCustomers(page, limit) and apiService.getOrders({page, limit}):
\* page.toString(), limit.toString()
CrawlRequest(endpoint, page, limit) ==
    [Q(endpoint) EXCEPT !.page = IntToStr(page), !.limit = IntToStr(limit)]

\* request page 1
CrawlStart(endpoint, limit) ==
    /\ crawl.st \in {"off", "done", "failed"}
    /\ Accepting
    /\ LET q == CrawlRequest(endpoint, 1, limit)
       IN  Dispatch(q, IF endpoint = "orders" THEN OrdersHandler(q) ELSE CustomersHandler(q))
    /\ crawl' = [endpoint |-> endpoint, page |-> 1, limit |-> limit, st |-> "fetching",
                 seen |-> <<>>]
    /\ UNCHANGED <<view, table, app, pool>>

\* take the rows of the page that arrived; request the next page while the
\* envelope says there is one
CrawlNext ==
    /\ crawl.st = "fetching"
    /\ pc = "responded"
    /\ UNCHANGED <<view, table, app, pool>>
    /\ IF resp[1].status # 200
       THEN /\ crawl' = [crawl EXCEPT !.st = "failed"]
            /\ UNCHANGED <<config, exitCode, busy, customers, orders, today, pc, req, locals,
                           queries, resp, sent, alive, log>>
       ELSE LET rows == IF crawl.endpoint = "orders" THEN resp[1].body.orders
                        ELSE resp[1].body.customers
                seen == crawl.seen \o [i \in 1..Len(rows) |-> rows[i].id]
                q == CrawlRequest(crawl.endpoint, crawl.page + 1, crawl.limit)
            IN  IF resp[1].body.pagination.hasNext
                THEN /\ Dispatch(q, IF crawl.endpoint = "orders" THEN OrdersHandler(q)
                                    ELSE CustomersHandler(q))
                     /\ crawl' = [crawl EXCEPT !.page = crawl.page + 1, !.seen = seen]
                ELSE /\ crawl' = [crawl EXCEPT !.st = "done", !.seen = seen]
                     /\ UNCHANGED <<config, exitCode, busy, customers, orders, today, pc, req,
                                    locals, queries, resp, sent, alive, log>>

(***************************************************************************)
(* A client that asks for the revenue ranking twice                        *)
(***************************************************************************)
\* GET /api/charts/revenue-by-customer?limit=<limit>, or without the
\* parameter when limit is 0
RankingRequest(limit) ==
    [Q("revenue-by-customer") EXCEPT !.limit = IF limit = 0 THEN <<>> ELSE IntToStr(limit)]

\* first call
RepeatStart(limit) ==
    /\ crawl.st # "fetching"
    /\ Accepting
    /\ Dispatch(RankingRequest(limit), RevenueByCustomerHandler(RankingRequest(limit)))
    /\ crawl' = [page |-> 1, limit |-> limit, st |-> "fetching", seen |-> <<>>]
    /\ UNCHANGED <<view, table, app, pool>>

\* keep the first ranking and call again; compare the second with the first
RepeatNext ==
    LET \* the customer names of a ranking, in response order
        RankingNames(rows) == [i \in 1..Len(rows) |-> rows[i].name]
    IN  /\ crawl.st = "fetching"
        /\ pc = "responded"
        /\ UNCHANGED <<view, table, app, pool>>
        /\ IF resp[1].status # 200
           THEN /\ crawl' = [crawl EXCEPT !.st = "failed"]
                /\ UNCHANGED <<config, exitCode, busy, customers, orders, today, pc, req, locals,
                               queries, resp, sent, alive, log>>
           ELSE IF crawl.page = 1
           THEN /\ Dispatch(RankingRequest(crawl.limit),
                            RevenueByCustomerHandler(RankingRequest(crawl.limit)))
                /\ crawl' = [crawl EXCEPT !.page = 2, !.seen = RankingNames(resp[1].body)]
           ELSE /\ crawl' = [crawl EXCEPT !.st = IF RankingNames(resp[1].body) = crawl.seen
                                                 THEN "same" ELSE "differs"]
                /\ UNCHANGED <<config, exitCode, busy, customers, orders, today, pc, req, locals,
                               queries, resp, sent, alive, log>>

(***************************************************************************)
(* The Dashboard component                                                 *)
(***************************************************************************)
NoView ==
    [st |-> "unmounted",
     error |-> Null,
     trend |-> <<>>,
     metrics |-> Null,
     averageOrderValue |-> Null,
     trendRange |-> 7,
     trendLoading |-> FALSE,
     ordersOverTime |-> <<>>,
     ordersTrend |-> Null]

\* JavaScript `a / b` on integers: the number q / den, where 0 / 0 is NaN and
\* x / 0 is Infinity with the sign of x
Divide(a, b) ==
    IF b = 0
    THEN [q |-> IF a = 0 THEN NaN ELSE Infinity(IF a < 0 THEN 0 - 1 ELSE 1), den |-> 1]
    ELSE [q |-> Num(a), den |-> b]

\* the average without the `|| 1` on the denominator
averageOrderValueUnguarded(metrics) == Divide(metrics.totalRevenue, metrics.totalOrders)

\* `metrics.totalRevenue / (metrics.totalOrders || 1)`
averageOrderValue(metrics) ==
    Divide(metrics.totalRevenue, OrDefault(Num(metrics.totalOrders), 1))

\* the ordersTrend memo over the rows as the API delivered them: the operands
\* are the strings of the JSON body, so `-` and `/` convert them to numbers,
\* `+` concatenates and `>` compares code units
ordersTrend(ordersOverTime) ==
    LET \* JavaScript Number(s) of a decimal string, in cents: NaN unless the whole
        \* string is one numeric literal
        ToNumber(s) ==
            LET signed == Len(s) > 0 /\ s[1] = "-"
                body == IF signed THEN Tail(s) ELSE s
                dots == {i \in 1..Len(body) : body[i] = "."}
                literal == /\ \A i \in 1..Len(body) : IsDigit(body[i]) \/ body[i] = "."
                           /\ Cardinality(dots) <= 1
                           /\ \E i \in 1..Len(body) : IsDigit(body[i])
            IN  IF Len(s) = 0 THEN Num(0)
                ELSE IF literal THEN parseFloat(s)
                ELSE NaN
        n == Len(ordersOverTime)
        \* [...ordersOverTime].sort by date, a stable sort
        sorted == LET p == CHOOSE p \in Perms(1..n) :
                              \A i, j \in 1..n :
                                  i < j => \/ ordersOverTime[p[i]].date < ordersOverTime[p[j]].date
                                           \/ /\ ordersOverTime[p[i]].date = ordersOverTime[p[j]].date
                                              /\ p[i] < p[j]
                  IN  [i \in 1..n |-> ordersOverTime[p[i]]]
        first == sorted[1]
        last == sorted[n]
        \* the numeric operators on two converted operands
        Minus(a, b) == IF a.nan \/ b.nan THEN NaN ELSE Num(a.val - b.val)
        Over(a, b) == IF a.nan \/ b.nan THEN [q |-> NaN, den |-> 1] ELSE Divide(a.val, b.val)
        Times(r, k) == IF r.q.nan \/ r.q.inf THEN r ELSE [r EXCEPT !.q = Num(r.q.val * k)]
        \* `first.order_count === 0` is false for every string
        percentChange ==
            Times(Over(Minus(parseInt(last.order_count), parseInt(first.order_count)),
                       parseInt(first.order_count)), 100)
        \* reduce((acc, day) => acc + day.revenue, 0)
        RECURSIVE Concat(_)
        Concat(k) == IF k = 0 THEN <<"0">> ELSE Concat(k - 1) \o sorted[k].revenue
        totalRevenueWindow == Concat(n)
        projectedMonthlyRevenue == Times(Over(ToNumber(totalRevenueWindow), Num(n)), 30)
        \* UTF-16 code units of the characters of a numeric string
        Code(c) == IF c = "-" THEN 45
                   ELSE IF c = "." THEN 46
                   ELSE 47 + CHOOSE d \in 1..10 : Digits[d] = c
        \* a > b on two strings
        Greater(a, b) ==
            \E k \in 1..Len(a) :
                /\ \A j \in 1..(k - 1) : j <= Len(b) /\ a[j] = b[j]
                /\ k > Len(b) \/ Code(a[k]) > Code(b[k])
        RECURSIVE Top(_)
        Top(k) == IF k = 0 THEN sorted[1]
                  ELSE IF Greater(sorted[k].revenue, Top(k - 1).revenue) THEN sorted[k]
                  ELSE Top(k - 1)
    IN  IF n = 0 THEN Null
        ELSE [percentChange |-> percentChange,
              projectedMonthlyRevenue |-> projectedMonthlyRevenue,
              bestDay |-> Top(n)]

\* a getOrdersOverTime call of the fetchTrend effect; live is the isMounted
\* flag of the effect run that made it
TrendRequest(range) ==
    [ok |-> FALSE, st |-> "sent", range |-> range, live |-> TRUE, data |-> <<>>]

\* the cleanup of the fetchTrend effect: isMounted = false in every earlier run
Cleanup(trend) == [i \in DOMAIN trend |-> [trend[i] EXCEPT !.live = FALSE]]

\* the component mounts: fetchCoreData asks for the metrics and fetchTrend for
\* the trend of the initial range
MountDashboard ==
    /\ view.st = "unmounted"
    /\ Accepting
    /\ Dispatch(Q("dashboard"), DashboardHandler(Q("dashboard")))
    /\ view' = [view EXCEPT !.st = "loading",
                            !.trendLoading = TRUE,
                            !.trend = <<TrendRequest(view.trendRange)>>]
    /\ UNCHANGED <<crawl, table, app, pool>>

\* fetchCoreData after its Promise.all: the metrics are kept when both the
\* metrics request and the recent-orders request (ordersOk) succeeded
FetchCoreData ==
    /\ view.st = "loading"
    /\ pc = "responded"
    /\ \E ordersOk \in BOOLEAN :
          view' = IF resp[1].status = 200 /\ ordersOk
                  THEN [view EXCEPT !.st = "ready", !.metrics = resp[1].body]
                  ELSE [view EXCEPT !.st = "failed",
                                    !.error = "Failed to load dashboard data"]
    /\ UNCHANGED <<config, exitCode, busy, customers, orders, today, pc, req, locals,
                   queries, resp, sent, alive, crawl, table, app, pool, log>>

\* the component renders its cards from the metrics
Render ==
    /\ view.st = "ready"
    /\ view' = [view EXCEPT !.st = "rendered",
                            !.averageOrderValue = averageOrderValue(view.metrics)]
    /\ UNCHANGED <<config, exitCode, busy, customers, orders, today, pc, req, locals,
                   queries, resp, sent, alive, crawl, table, app, pool, log>>

\* a range button: the fetchTrend effect is cleaned up and runs again
SetTrendRange(range) ==
    /\ view.st \in {"loading", "ready", "failed", "rendered"}
    /\ range # view.trendRange
    /\ Len(view.trend) < MaxTrendFetches
    /\ view' = [view EXCEPT !.trendRange = range,
                            !.trendLoading = TRUE,
                            !.trend = Append(Cleanup(view.trend), TrendRequest(range))]
    /\ UNCHANGED <<config, exitCode, busy, customers, orders, today, pc, req, locals,
                   queries, resp, sent, alive, crawl, table, app, pool, log>>

\* the component is removed: both effects are cleaned up
UnmountDashboard ==
    /\ view.st \in {"loading", "ready", "failed", "rendered"}
    /\ view' = [view EXCEPT !.st = "closed", !.trend = Cleanup(view.trend)]
    /\ UNCHANGED <<config, exitCode, busy, customers, orders, today, pc, req, locals,
                   queries, resp, sent, alive, crawl, table, app, pool, log>>

\* a trend request reaches the server; requests arrive in any order
ServeTrend(i) ==
    /\ i \in DOMAIN view.trend
    /\ view.trend[i].st = "sent"
    /\ Accepting
    /\ LET q == [Q("orders-over-time") EXCEPT !.days = IntToStr(view.trend[i].range)]
       IN  Dispatch(q, OrdersOverTimeHandler(q))
    /\ view' = [view EXCEPT !.trend[i].st = "serving"]
    /\ UNCHANGED <<crawl, table, app, pool>>

\* fetchTrend after its await, without the isMounted tests
ReceiveTrendUnguarded(i) ==
    /\ i \in DOMAIN view.trend
    /\ view.trend[i].st = "serving"
    /\ pc = "responded"
    /\ LET ok == resp[1].status = 200
           rows == IF ok THEN resp[1].body ELSE view.ordersOverTime
       IN  view' = [view EXCEPT !.trend[i].st = "settled",
                                !.trend[i].ok = ok,
                                !.trend[i].data = IF ok THEN resp[1].body ELSE <<>>,
                                !.ordersOverTime = rows,
                                !.ordersTrend = ordersTrend(rows),
                                !.trendLoading = FALSE]
    /\ UNCHANGED <<config, exitCode, busy, customers, orders, today, pc, req, locals,
                   queries, resp, sent, alive, crawl, table, app, pool, log>>

\* fetchTrend after its await: the rows are kept and the spinner is stopped
\* only while this run's isMounted holds; a failure is only logged
ReceiveTrend(i) ==
    /\ i \in DOMAIN view.trend
    /\ view.trend[i].st = "serving"
    /\ pc = "responded"
    /\ LET ok == resp[1].status = 200
           isMounted == view.trend[i].live
           rows == IF ok /\ isMounted THEN resp[1].body ELSE view.ordersOverTime
       IN  view' = [view EXCEPT !.trend[i].st = "settled",
                                !.trend[i].ok = ok,
                                !.trend[i].data = IF ok THEN resp[1].body ELSE <<>>,
                                !.ordersOverTime = rows,
                                !.ordersTrend = ordersTrend(rows),
                                !.trendLoading = IF isMounted THEN FALSE ELSE @]
    /\ UNCHANGED <<config, exitCode, busy, customers, orders, today, pc, req, locals,
                   queries, resp, sent, alive, crawl, table, app, pool, log>>

(***************************************************************************)
(* The OrdersTable component                                               *)
(***************************************************************************)
\* useState: the filters start as {page: 1, limit: 10}; a filter the object
\* has no key for is Null
NoTable ==
    LET filters == [status |-> Null,
                    customer_id |-> Null,
                    page |-> 1,
                    limit |-> 10,
                    start_date |-> Null,
                    end_date |-> Null]
    IN  [orders |-> <<>>,
         st |-> "unmounted",
         error |-> Null,
         pagination |-> Null,
         fetches |-> <<>>,
         last |-> [op |-> "none", key |-> "none", value |-> 0, prev |-> filters],
         filters |-> filters,
         loading |-> TRUE,
         cells |-> <<>>]

\* capitalizeFirst of utils/formatters: the first character in upper case
capitalizeFirst(str) ==
    LET lower == <<"a", "b", "c", "d", "e", "f", "g", "h", "i", "j", "k", "l", "m",
                   "n", "o", "p", "q", "r", "s", "t", "u", "v", "w", "x", "y", "z">>
        upper == <<"A", "B", "C", "D", "E", "F", "G", "H", "I", "J", "K", "L", "M",
                   "N", "O", "P", "Q", "R", "S", "T", "U", "V", "W", "X", "Y", "Z">>
        ToUpper(c) == IF \E i \in 1..26 : lower[i] = c
                      THEN upper[CHOOSE i \in 1..26 : lower[i] = c]
                      ELSE c
    IN  IF Len(str) = 0 THEN str ELSE <<ToUpper(str[1])>> \o Tail(str)

\* the payment cell of a row: str.replace('_', ' ') with a string pattern
\* replaces the first occurrence only
PaymentCell(order) ==
    LET pm == order.payment_method
        at == {i \in 1..Len(pm) : pm[i] = "_"}
        first == CHOOSE i \in at : \A j \in at : i <= j
        replaced == IF at = {} THEN pm ELSE [pm EXCEPT ![first] = " "]
    IN  IF pm = Null \/ Len(pm) = 0 THEN <<"N", "/", "A">>
        ELSE capitalizeFirst(replaced)

\* setFilters(f) followed by the effect on [filters]: fetchOrders(f) sets
\* loading and sends the request
fetchOrders(f, op, key, value) ==
    [table EXCEPT !.filters = f,
                  !.loading = TRUE,
                  !.fetches = Append(@, [ok |-> FALSE,
                                         st |-> "sent",
                                         data |-> <<>>,
                                         filters |-> f]),
                  !.last = [op |-> op, key |-> key, value |-> value, prev |-> table.filters]]

\* the component mounts and the effect fetches with the initial filters
MountOrdersTable ==
    /\ table.st = "unmounted"
    /\ table' = [fetchOrders(table.filters, "mount", "none", 0) EXCEPT !.st = "mounted"]
    /\ UNCHANGED <<config, exitCode, busy, customers, orders, today, pc, req, locals,
                   queries, resp, sent, alive, crawl, view, app, pool, log>>

\* handleFilterChange without the page reset
handleFilterChangeKeepsPage(key, value) ==
    /\ table.st = "mounted"
    /\ Len(table.fetches) < MaxTableFetches
    /\ table' = fetchOrders([table.filters EXCEPT ![key] = value],
                            "handleFilterChange", key, value)
    /\ UNCHANGED <<config, exitCode, busy, customers, orders, today, pc, req, locals,
                   queries, resp, sent, alive, crawl, view, app, pool, log>>

\* {...prev, [key]: value, page: key !== 'page' ? 1 : value}
handleFilterChange(key, value) ==
    /\ table.st = "mounted"
    /\ Len(table.fetches) < MaxTableFetches
    /\ table' = fetchOrders([[table.filters EXCEPT ![key] = value]
                                 EXCEPT !.page = IF key # "page" THEN 1 ELSE value],
                            "handleFilterChange", key, value)
    /\ UNCHANGED <<config, exitCode, busy, customers, orders, today, pc, req, locals,
                   queries, resp, sent, alive, crawl, view, app, pool, log>>

\* {...prev, page}
handlePageChange(page) ==
    /\ table.st = "mounted"
    /\ Len(table.fetches) < MaxTableFetches
    /\ table' = fetchOrders([table.filters EXCEPT !.page = page], "handlePageChange",
                            "page", page)
    /\ UNCHANGED <<config, exitCode, busy, customers, orders, today, pc, req, locals,
                   queries, resp, sent, alive, crawl, view, app, pool, log>>

\* setFilters({page: 1, limit: 10})
clearFilters ==
    /\ table.st = "mounted"
    /\ Len(table.fetches) < MaxTableFetches
    /\ table' = fetchOrders(NoTable.filters, "clearFilters", "none", 0)
    /\ UNCHANGED <<config, exitCode, busy, customers, orders, today, pc, req, locals,
                   queries, resp, sent, alive, crawl, view, app, pool, log>>

\* apiService.getOrders: every filter that is neither undefined nor '' becomes
\* a query parameter through toString(); the request reaches the server, and
\* requests arrive in any order
ServeOrders(i) ==
    /\ i \in DOMAIN table.fetches
    /\ table.fetches[i].st = "sent"
    /\ Accepting
    /\ LET f == table.fetches[i].filters
           Param(v) == IF v = Null THEN <<>> ELSE v
           q == [Q("orders") EXCEPT !.status = Param(f.status),
                                    !.customer_id = Param(f.customer_id),
                                    !.start_date = Param(f.start_date),
                                    !.end_date = Param(f.end_date),
                                    !.page = IntToStr(f.page),
                                    !.limit = IntToStr(f.limit)]
       IN  Dispatch(q, OrdersHandler(q))
    /\ table' = [table EXCEPT !.fetches[i].st = "serving"]
    /\ UNCHANGED <<crawl, view, app, pool>>

\* fetchOrders after its await: rows, pagination and error are set whichever
\* request the response belongs to
ReceiveOrders(i) ==
    /\ i \in DOMAIN table.fetches
    /\ table.fetches[i].st = "serving"
    /\ pc = "responded"
    /\ LET ok == resp[1].status = 200
           rows == IF ok THEN resp[1].body.orders ELSE table.orders
       IN  table' = [table EXCEPT !.fetches[i].st = "settled",
                                  !.fetches[i].ok = ok,
                                  !.fetches[i].data = IF ok THEN resp[1].body ELSE <<>>,
                                  !.orders = rows,
                                  !.pagination = IF ok THEN resp[1].body.pagination ELSE @,
                                  !.error = IF ok THEN Null ELSE "Failed to load orders",
                                  !.loading = FALSE,
                                  !.cells = [k \in DOMAIN rows |-> PaymentCell(rows[k])]]
    /\ UNCHANGED <<config, exitCode, busy, customers, orders, today, pc, req, locals,
                   queries, resp, sent, alive, crawl, view, app, pool, log>>

(***************************************************************************)
(* The App shell: navigation and the chatbot widget                        *)
(***************************************************************************)
\* the tabs of the navigation bar, in their order
tabs == <<"dashboard", "charts", "customers", "orders">>

\* App before it mounts: useState('dashboard'), useRef(false), no global of
\* the widget script defined, no timer pending
NoApp ==
    [activeTab |-> "dashboard", trail |-> <<>>, mounted |-> FALSE,
     widgetInitialized |-> FALSE, defined |-> {}, timers |-> {}, timer |-> 0,
     nextTimer |-> 1, calls |-> 0, early |-> FALSE]

\* onTabChange = setActiveTab; the trail keeps the last MaxTrail events
onTabChange(id, key) ==
    LET e == [from |-> app.activeTab, key |-> key]
        trail == Append(app.trail, e)
    IN  [app EXCEPT !.activeTab = id,
                    !.trail = IF Len(trail) > MaxTrail THEN Tail(trail) ELSE trail]

\* a click on a tab button
SelectTab(id) ==
    /\ app' = onTabChange(id, "click")
    /\ UNCHANGED <<config, exitCode, busy, customers, orders, today, pc, req, locals,
                   queries, resp, sent, alive, crawl, view, table, pool, log>>

\* handleKeyNavigation without `+ tabs.length`: at the first tab ArrowLeft
\* gives index -1, which names no tab
handleKeyNavigationNoWrap(key) ==
    /\ LET currentIndex == (CHOOSE i \in 1..Len(tabs) : tabs[i] = app.activeTab) - 1
           direction == IF key = "ArrowRight" THEN 1 ELSE 0 - 1
           nextIndex == IF currentIndex + direction < 0 THEN 0 - 1
                        ELSE (currentIndex + direction) % Len(tabs)
       IN  app' = IF key \notin {"ArrowRight", "ArrowLeft"} \/ nextIndex < 0
                  THEN onTabChange(app.activeTab, key)
                  ELSE onTabChange(tabs[nextIndex + 1], key)
    /\ UNCHANGED <<config, exitCode, busy, customers, orders, today, pc, req, locals,
                   queries, resp, sent, alive, crawl, view, table, pool, log>>

\* a key press on the tab list; a key other than the two arrows changes nothing
handleKeyNavigation(key) ==
    /\ LET currentIndex == (CHOOSE i \in 1..Len(tabs) : tabs[i] = app.activeTab) - 1
           direction == IF key = "ArrowRight" THEN 1 ELSE 0 - 1
           nextIndex == (currentIndex + direction + Len(tabs)) % Len(tabs)
       IN  app' = IF key \notin {"ArrowRight", "ArrowLeft"}
                  THEN onTabChange(app.activeTab, key)
                  ELSE onTabChange(tabs[nextIndex + 1], key)
    /\ UNCHANGED <<config, exitCode, busy, customers, orders, today, pc, req, locals,
                   queries, resp, sent, alive, crawl, view, table, pool, log>>

\* the widget effect runs (mount, or re-run after a cleanup): unless the ref
\* says initialized, the first poll is scheduled and remembered as `timer`
MountApp ==
    /\ ~app.mounted
    /\ app.nextTimer <= MaxTimers
    /\ app' = IF app.widgetInitialized
              THEN [app EXCEPT !.mounted = TRUE, !.timer = 0]
              ELSE [app EXCEPT !.mounted = TRUE,
                               !.timer = app.nextTimer,
                               !.timers = @ \cup {app.nextTimer},
                               !.nextTimer = @ + 1]
    /\ UNCHANGED <<config, exitCode, busy, customers, orders, today, pc, req, locals,
                   queries, resp, sent, alive, crawl, view, table, pool, log>>

\* the cleanup of the widget effect: clearTimeout(timer)
CleanupApp ==
    /\ app.mounted
    /\ app' = [app EXCEPT !.mounted = FALSE, !.timers = @ \ {app.timer}]
    /\ UNCHANGED <<config, exitCode, busy, customers, orders, today, pc, req, locals,
                   queries, resp, sent, alive, crawl, view, table, pool, log>>

\* a script of the page finishes loading and defines its global
DefineGlobal(g) ==
    /\ g \notin app.defined
    /\ app' = [app EXCEPT !.defined = @ \cup {g}]
    /\ UNCHANGED <<config, exitCode, busy, customers, orders, today, pc, req, locals,
                   queries, resp, sent, alive, crawl, view, table, pool, log>>

\* timer t fires: checkWidgetLoaded polls again until initChatbotWidget, React
\* and ReactDOM are defined, then calls initializeWidget and sets the ref
checkWidgetLoaded(t) ==
    /\ t \in app.timers
    /\ IF "initChatbotWidget" \in app.defined /\ {"React", "ReactDOM"} \subseteq app.defined
       THEN app' = [app EXCEPT !.timers = @ \ {t},
                               !.calls = @ + 1,
                               !.early = @ \/ app.defined # {"initChatbotWidget", "React",
                                                             "ReactDOM"},
                               !.widgetInitialized = TRUE]
       ELSE /\ app.nextTimer <= MaxTimers
            /\ app' = [app EXCEPT !.timers = (@ \ {t}) \cup {app.nextTimer},
                                  !.nextTimer = @ + 1]
    /\ UNCHANGED <<config, exitCode, busy, customers, orders, today, pc, req, locals,
                   queries, resp, sent, alive, crawl, view, table, pool, log>>

(***************************************************************************)
(* Request inputs                                                          *)
(***************************************************************************)
(***************************************************************************)
(* Specifications                                                          *)
(***************************************************************************)
InitServer ==
    /\ today = 20240116
    /\ pc = "idle"
    /\ req = NoReq
    /\ locals = NoLocals
    /\ queries = <<>>
    /\ resp = <<>>
    /\ sent = 0
    /\ alive = TRUE
    /\ crawl = NoCrawl
    /\ log = <<>>
    /\ config = FullConfig
    /\ exitCode = -1
    /\ busy = 0
    /\ view = NoView
    /\ table = NoTable
    /\ app = NoApp
    /\ pool = NoPool

\* every endpoint, with statements that may fail
Next ==
    \/ \E p \in {<<>>, <<"a", "b", "c">>, <<"0">>, <<"-", "1">>, <<"2">>},
          l \in {<<>>, <<"0">>, <<"-", "1">>, <<"1">>, <<"2">>} :
          GetOrders([Q("orders") EXCEPT !.page = p, !.limit = l])
    \/ \E p \in {<<>>, <<"a", "b", "c">>, <<"0">>, <<"-", "1">>, <<"2">>},
          l \in {<<>>, <<"0">>, <<"-", "1">>, <<"1">>, <<"2">>} :
          GetCustomers([Q("customers") EXCEPT !.page = p, !.limit = l])
    \/ GetDashboard
    \/ GetRevenueBreakdown
    \/ \E d \in {<<>>, <<"1">>} : GetOrdersOverTime([Q("orders-over-time") EXCEPT !.days = d])
    \/ \E l \in {<<>>, <<"1">>} : GetRevenueByCustomer([Q("revenue-by-customer") EXCEPT !.limit = l])
    \/ GetOrderStatus
    \/ \E i \in 1..4 : QueryDone(i)
    \/ \E i \in 1..4 : QueryFail(i)
    \/ Settle
    \/ Return
    \/ GetRoot
    \/ GetHealth
    \/ \E path \in UnknownPaths : NotFound(path)
    \/ \E e \in MiddlewareErrors : ErrorMiddleware(e)

Init ==
    /\ InitServer
    /\ \E n \in 0..2 :
          /\ customers \in CustomerTables(n, {1})
          /\ \E m \in 0..MaxBaseOrders :
                orders \in OrderTables(m, n, {sCompleted, sPending}, {1}, {1})

Spec == Init /\ [][Next]_vars

\* process start with every configuration file, then requests
NextStartup ==
    \/ LoadConnection
    \/ Listen
    \/ \E event \in {"SIGINT", "SIGTERM", "SIGUSR2", "error"} : gracefulShutdown(event)
    \/ \E i \in 1..MaxSignals, resolved \in BOOLEAN : PoolEndSettles(i, resolved)
    \/ GetHealth
    \/ GetRevenueBreakdown
    \/ QueryDone(1)
    \/ QueryFail(1)
    \/ Settle
    \/ Return

InitStartup ==
    /\ today = 20240116
    /\ pc = "boot"
    /\ req = NoReq
    /\ locals = NoLocals
    /\ queries = <<>>
    /\ resp = <<>>
    /\ sent = 0
    /\ alive = TRUE
    /\ crawl = NoCrawl
    /\ log = <<>>
    /\ config \in {[vars |-> [v \in RequiredVars |-> Undefined], exists |-> FALSE]}
                  \cup {[vars |-> f, exists |-> TRUE] :
                           f \in [RequiredVars -> {Undefined, "", "value"}]}
    /\ exitCode = -1
    /\ busy = 0
    /\ view = NoView
    /\ table = NoTable
    /\ app = NoApp
    /\ pool = NoPool
    /\ customers \in CustomerTables(1, {1})
    /\ orders \in OrderTables(1, 1, {sCompleted}, {1}, {1})

SpecStartup == InitStartup /\ [][NextStartup]_vars

\* orders-over-time, over stores with orders before, inside and after the
\* window (today is Jan 16)
NextOverTime ==
    \/ \E d \in {<<>>, <<"1">>, <<"2">>, <<"0">>, <<"a", "b", "c">>, <<"-", "1">>} :
          GetOrdersOverTime([Q("orders-over-time") EXCEPT !.days = d])
    \/ QueryDone(1)
    \/ Settle
    \/ Return

InitOverTime ==
    /\ InitServer
    /\ customers \in CustomerTables(1, {1})
    /\ \E m \in 0..MaxChartOrders :
          orders \in OrderTables(m, 1, {sCompleted}, 0..MaxChartDay, {1})

SpecOverTime == InitOverTime /\ [][NextOverTime]_vars

\* the revenue ranking asked twice, over stores where customers can tie
NextRanking ==
    \/ \E l \in {0, 1, 2} : RepeatStart(l)
    \/ RepeatNext
    \/ QueryDone(1)
    \/ Settle
    \/ Return

InitRanking ==
    LET \* every orders table with m rows of one date whose totals lie in Totals
        FlatOrderTables(m, nCust, StatusSet, Totals) ==
            {[i \in 1..m |-> [OrderRow(i, f[i].c, DateOfDay(1), f[i].s, 1) EXCEPT !.total = f[i].t]] :
                f \in [1..m -> [c : 1..nCust, s : StatusSet, t : Totals]]}
    IN  /\ InitServer
        /\ customers \in CustomerTables(2, {1})
        /\ \E m \in 0..MaxChartOrders :
              orders \in FlatOrderTables(m, 2, {sCompleted, sPending}, {50000, 30000})

SpecRanking == InitRanking /\ [][NextRanking]_vars

\* requests while other requests hold any number of the pool's connections
NextPool ==
    \/ GetDashboard
    \/ GetOrders(Q("orders"))
    \/ OtherAcquire
    \/ OtherRelease
    \/ \E i \in 1..4 : Grant(i)
    \/ \E i \in 1..4 : AcquireTimeout(i)
    \/ \E i \in 1..4 : QueryDone(i)
    \/ Settle
    \/ Return

InitPool ==
    /\ today = 20240116
    /\ pc = "idle"
    /\ req = NoReq
    /\ locals = NoLocals
    /\ queries = <<>>
    /\ resp = <<>>
    /\ sent = 0
    /\ alive = TRUE
    /\ crawl = NoCrawl
    /\ log = <<>>
    /\ config = FullConfig
    /\ exitCode = -1
    /\ busy \in 0..PoolMax
    /\ view = NoView
    /\ table = NoTable
    /\ app = NoApp
    /\ pool = NoPool
    /\ customers \in CustomerTables(1, {1})
    /\ orders \in OrderTables(1, 1, {sCompleted}, {1}, {1})

\* a statement that runs in the store finishes, a queued one reaches its
\* timeout unless it is given a connection, and the event loop runs the
\* handler's continuation; nothing is assumed about the other requests
SpecPoolLive ==
    /\ InitPool
    /\ [][NextPool]_vars
    /\ WF_vars(Settle)
    /\ \A i \in 1..4 : WF_vars(QueryDone(i)) /\ WF_vars(AcquireTimeout(i))

\* the order listing with its filters, over stores with varied orders
NextOrders ==
    \/ \E st \in {<<>>, sCompleted},
          c \in {<<>>, <<"1">>, <<"9">>},
          sd \in {<<>>, <<"2", "0", "2", "4", "-", "0", "1", "-", "1", "5">>,
                  <<"2", "0", "2", "4", "-", "0", "1", "-", "1", "6">>},
          ed \in {<<>>, <<"2", "0", "2", "4", "-", "0", "1", "-", "1", "5">>},
          p \in {<<>>, <<"-", "1">>}, l \in {<<"1">>} :
          GetOrders([Q("orders") EXCEPT !.status = st, !.customer_id = c,
                                        !.start_date = sd, !.end_date = ed,
                                        !.page = p, !.limit = l])
    \/ \E i \in 1..2 : QueryDone(i)
    \/ Settle
    \/ Return

InitOrders ==
    /\ InitServer
    /\ customers \in CustomerTables(2, {1})
    /\ \E m \in 0..MaxListOrders :
          orders \in OrderTables(m, 2, {sCompleted, sPending}, 1..MaxDate, {1})

SpecOrders == InitOrders /\ [][NextOrders]_vars

\* every handler that takes request values, with hostile and extreme inputs
NextSql ==
    \/ \E st \in ({<<>>, <<"'", " ", "O", "R", " ", "1", "=", "1", " ", "-", "-">>} \cup {sCompleted}),
          c \in ({<<>>, <<"'", " ", "O", "R", " ", "1", "=", "1", " ", "-", "-">>} \cup {<<"1">>}),
          sd \in ({<<>>, <<"'", " ", "O", "R", " ", "1", "=", "1", " ", "-", "-">>} \cup {<<"2", "0", "2", "4", "-", "0", "1", "-", "1", "5">>}),
          ed \in ({<<>>, <<"'", " ", "O", "R", " ", "1", "=", "1", " ", "-", "-">>} \cup {<<"2", "0", "2", "4", "-", "0", "1", "-", "1", "5">>}),
          p \in {<<>>, <<"2">>},
          l \in {<<>>, <<"2">>, <<"2", ";">> \o <<"'", " ", "O", "R", " ", "1", "=", "1", " ", "-", "-">>} :
          GetOrders([Q("orders") EXCEPT !.status = st, !.customer_id = c,
                                        !.start_date = sd, !.end_date = ed,
                                        !.page = p, !.limit = l])
    \/ \E se \in ({<<>>, <<"'", " ", "O", "R", " ", "1", "=", "1", " ", "-", "-">>} \cup {<<"a">>}),
          p \in {<<>>, <<"2">>},
          l \in {<<>>, <<"2">>, <<"2", ";">> \o <<"'", " ", "O", "R", " ", "1", "=", "1", " ", "-", "-">>} :
          GetCustomers([Q("customers") EXCEPT !.search = se, !.page = p, !.limit = l])
    \/ \E l \in {<<>>, <<"2">>, <<"2", ";">> \o <<"'", " ", "O", "R", " ", "1", "=", "1", " ", "-", "-">>} :
          GetRevenueByCustomer([Q("revenue-by-customer") EXCEPT !.limit = l])
    \* the last days value is a digit string above Number.MAX_VALUE
    \/ \E d \in {<<>>, <<"7">>, <<"0">>, <<"a", "b", "c">>, <<"-", "1">>,
                  <<"1", ";">> \o <<"'", " ", "O", "R", " ", "1", "=", "1", " ", "-", "-">>, [i \in 1..310 |-> "9"]} :
          GetOrdersOverTime([Q("orders-over-time") EXCEPT !.days = d])
    \/ \E i \in 1..2 : QueryDone(i)
    \/ Settle
    \/ Return

InitSql ==
    /\ InitServer
    /\ customers \in CustomerTables(1, {1})
    /\ \E m \in 0..1 : orders \in OrderTables(m, 1, {sCompleted}, {1}, {1})

SpecSql == InitSql /\ [][NextSql]_vars

\* the customer listing with its search, over stores with varied customers
InitCustomers ==
    /\ InitServer
    /\ \E n \in 0..MaxCustomers :
          /\ customers \in CustomerTables(n, 1..MaxStamp)
          /\ \E m \in 0..MaxCustOrders :
                orders \in OrderTables(m, n, {sCompleted}, {1}, {1})

NextCustomers ==
    \/ \E s \in {<<>>, <<" ">>, <<"b">>, <<"A", "L">>, <<"_">>, <<"%">>, <<"z", "z">>},
          p \in {<<>>, <<"2">>},
          l \in {<<"1">>, <<"2">>} :
          GetCustomers([Q("customers") EXCEPT !.search = s, !.page = p, !.limit = l])
    \/ \E i \in 1..2 : QueryDone(i)
    \/ Settle
    \/ Return

SpecCustomers == InitCustomers /\ [][NextCustomers]_vars

\* a client paging through the search-less customer listing
NextCrawl ==
    \/ \E l \in {1, 2} : CrawlStart("customers", l)
    \/ CrawlNext
    \/ \E i \in 1..2 : QueryDone(i)
    \/ Settle
    \/ Return

SpecCrawl == InitCustomers /\ [][NextCrawl]_vars

\* a client paging through the unfiltered order listing
NextOrdersCrawl ==
    \/ \E l \in {1, 2} : CrawlStart("orders", l)
    \/ CrawlNext
    \/ \E i \in 1..2 : QueryDone(i)
    \/ Settle
    \/ Return

SpecOrdersCrawl == InitOrders /\ [][NextOrdersCrawl]_vars

\* the dashboard summary, over stores with every order status
NextDashboard ==
    \/ GetDashboard
    \/ \E i \in 1..4 : QueryDone(i)
    \/ Settle
    \/ Return

InitDashboard ==
    /\ InitServer
    /\ \E n \in 0..2 :
          /\ customers \in CustomerTables(n, {1})
          /\ \E m \in 0..MaxOrders :
                orders \in OrderTables(m, n, {sCompleted, sShipped, sPending, <<"c", "a", "n", "c", "e", "l", "l", "e", "d">>},
                                       {1}, {1})

SpecDashboard == InitDashboard /\ [][NextDashboard]_vars

\* the Dashboard component in front of the metrics endpoint
NextView ==
    \/ MountDashboard
    \/ \E i \in 1..4 : QueryDone(i)
    \/ QueryFail(1)
    \/ Settle
    \/ FetchCoreData
    \/ Render
    \/ \E range \in {7, 14, 30} : SetTrendRange(range)
    \/ \E i \in 1..MaxTrendFetches : ServeTrend(i)
    \/ \E i \in 1..MaxTrendFetches : ReceiveTrend(i)
    \/ UnmountDashboard
    \/ Return

InitView ==
    /\ InitServer
    /\ customers \in CustomerTables(1, {1})
    /\ \E m \in 0..MaxViewOrders :
          orders \in OrderTables(m, 1, {sCompleted}, {0 - 9, 1, 2}, {1})

SpecView == InitView /\ [][NextView]_vars

\* the OrdersTable component in front of the order listing
NextTable ==
    \/ MountOrdersTable
    \/ handleFilterChange("status", sCompleted)
    \/ handleFilterChange("start_date", <<"2", "0", "2", "4", "-", "0", "1", "-", "1", "6">>)
    \/ handleFilterChange("limit", 20)
    \/ handleFilterChange("page", 2)
    \/ handlePageChange(2)
    \/ clearFilters
    \/ \E i \in 1..MaxTableFetches : ServeOrders(i)
    \/ \E i \in 1..2 : QueryDone(i)
    \/ QueryFail(1)
    \/ Settle
    \/ \E i \in 1..MaxTableFetches : ReceiveOrders(i)
    \/ Return

InitTable ==
    /\ InitServer
    /\ customers \in CustomerTables(1, {1})
    /\ \E m \in 0..MaxTableOrders :
          orders \in OrderTables(m, 1, {sCompleted}, {1}, {1})

SpecTable == InitTable /\ [][NextTable]_vars

\* the filter controls of the OrdersTable component, whatever the server does
NextFilters ==
    \/ MountOrdersTable
    \/ \E st \in {sCompleted, sPending, <<>>} : handleFilterChange("status", st)
    \/ \E d \in {<<"2", "0", "2", "4", "-", "0", "1", "-", "1", "6">>, <<>>} :
          \E key \in {"start_date", "end_date"} : handleFilterChange(key, d)
    \/ \E n \in {10, 20, 50} : handleFilterChange("limit", n)
    \/ \E n \in {1, 2, 3} : handleFilterChange("page", n)
    \/ \E n \in {1, 2, 3} : handlePageChange(n)
    \/ clearFilters

SpecFilters == InitTable /\ [][NextFilters]_vars

\* the App shell in the browser; the server takes no part
InitApp ==
    /\ InitServer
    /\ customers = <<>>
    /\ orders = <<>>

\* the widget effect, its timers and the scripts of the page
NextApp ==
    \/ MountApp
    \/ CleanupApp
    \/ \E g \in {"initChatbotWidget", "React", "ReactDOM"} : DefineGlobal(g)
    \/ \E t \in 1..MaxTimers : checkWidgetLoaded(t)

SpecApp == InitApp /\ [][NextApp]_vars

\* tab clicks and key presses on the navigation bar
NextNavigation ==
    \/ \E i \in 1..4 : SelectTab(tabs[i])
    \/ \E key \in {"ArrowRight", "ArrowLeft", "Enter", "ArrowDown"} : handleKeyNavigation(key)

SpecNavigation == InitApp /\ [][NextNavigation]_vars

(***************************************************************************)
(* Properties                                                              *)
(***************************************************************************)
\* C1: for both listing endpoints, a request with page >= 1 and limit >= 1
\* (or their defaults 1 and 10) that is answered with data carries
\* totalPages = ceil(totalCount / limit) (the least n with n * limit >=
\* totalCount, so 0 for 0 rows), currentPage = page, hasNext = (page <
\* totalPages) and hasPrev = (page > 1).
C1_PaginationEnvelope ==
    \A page \in 1..3, limit \in 1..10 :
        ( /\ pc = "responded"
          /\ req.endpoint \in {"orders", "customers"}
          /\ resp[1].status = 200
          /\ req.page = (IF page = 1 THEN <<>> ELSE IntToStr(page))
          /\ req.limit = (IF limit = 10 THEN <<>> ELSE IntToStr(limit)) )
        => LET pg == resp[1].body.pagination
           IN  /\ pg.totalCount >= 0
               /\ pg.totalPages * limit >= pg.totalCount
               /\ (pg.totalPages - 1) * limit < pg.totalCount
               /\ pg.currentPage = page
               /\ pg.hasNext = (page < pg.totalPages)
               /\ pg.hasPrev = (page > 1)

\* C1 witness: page 2 of a listing whose single row does not fill a page of 2
C1_Witness ==
    /\ pc = "responded"
    /\ req.endpoint \in {"orders", "customers"}
    /\ req.page = <<"2">>
    /\ req.limit = <<"2">>
    /\ resp[1].status = 200
    /\ resp[1].body.pagination.totalCount = 1
    /\ resp[1].body.pagination.totalPages = 1
    /\ resp[1].body.pagination.hasPrev

\* C2: in GET /api/orders, whichever of the four filters are present, the
\* count query carries exactly the predicates of the row query with the same
\* placeholders and the same bound values; placeholder $i is bound to the
\* i-th present filter value, LIMIT and OFFSET are bound to the two
\* placeholders after the last filter, and totalCount is the number of orders
\* the row query selects without LIMIT/OFFSET.
C2_CountMatchesRows ==
    (req.endpoint = "orders" /\ pc \in {"await", "responded"}) =>
        LET given == << <<req.status, "status", "=">>,
                        <<req.customer_id, "customer_id", "=">>,
                        <<req.start_date, "order_date", ">=">>,
                        <<req.end_date, "order_date", "<=">> >>
            present == SelectSeq(given, LAMBDA g : g[1] # <<>>)
            k == Len(present)
            rowQ == queries[1]
            countQ == queries[2]
        IN  /\ rowQ.sql.where = countQ.sql.where
            /\ Len(rowQ.sql.where) = k
            /\ Len(countQ.params) = k
            /\ Len(rowQ.params) = k + 2
            /\ \A i \in 1..k :
                  /\ rowQ.sql.where[i].col = present[i][2]
                  /\ rowQ.sql.where[i].op = present[i][3]
                  /\ rowQ.sql.where[i].ph = i
                  /\ ParamText(rowQ.params[i]) = present[i][1]
                  /\ countQ.params[i] = rowQ.params[i]
            /\ rowQ.sql.limitPh = k + 1
            /\ rowQ.sql.offsetPh = k + 2
            /\ rowQ.params[k + 1].n = locals.limit
            /\ rowQ.params[k + 2].n = locals.offset
            /\ countQ.sql.limitPh = 0 /\ countQ.sql.offsetPh = 0
            /\ (pc = "responded" /\ resp[1].status = 200) =>
                  resp[1].body.pagination.totalCount
                      = Cardinality(OrdersJoinCustomers(rowQ.sql.where, rowQ.params))

\* C2 witness: all four filters present and a non-empty count answered
C2_Witness ==
    /\ req.endpoint = "orders"
    /\ pc = "responded"
    /\ req.status # <<>> /\ req.customer_id # <<>>
    /\ req.start_date # <<>> /\ req.end_date # <<>>
    /\ resp[1].status = 200
    /\ resp[1].body.pagination.totalCount > 0

\* C3: in GET /api/orders every returned order satisfies every filter that is
\* present (status and customer_id equal, start_date <= order_date <=
\* end_date with both bounds inclusive), and dropping any one filter from the
\* request does not decrease totalCount.
C3_FiltersConjoined ==
    (req.endpoint = "orders" /\ pc = "responded" /\ resp[1].status = 200) =>
        LET Iso(d) == NatToStr(d \div 10000) \o <<"-">>
                      \o <<Digits[((d \div 1000) % 10) + 1], Digits[((d \div 100) % 10) + 1]>>
                      \o <<"-">>
                      \o <<Digits[((d \div 10) % 10) + 1], Digits[(d % 10) + 1]>>
            Days == 20240101..20240131
            CountOf(q) ==
                LET h == OrdersHandler(q)
                    r == CHOOSE r \in Exec(h.queries[2].sql, h.queries[2].params) : TRUE
                IN  parseInt(r.rows[1].value).val
            total == resp[1].body.pagination.totalCount
            rows == resp[1].body.orders
        IN  /\ \A i \in 1..Len(rows) :
                  /\ req.status # <<>> => rows[i].status = req.status
                  /\ req.customer_id # <<>> => IntToStr(rows[i].customer_id) = req.customer_id
                  /\ req.start_date # <<>> =>
                        \E d \in Days : Iso(d) = req.start_date /\ d <= rows[i].order_date
                  /\ req.end_date # <<>> =>
                        \E d \in Days : Iso(d) = req.end_date /\ rows[i].order_date <= d
            /\ CountOf([req EXCEPT !.status = <<>>]) >= total
            /\ CountOf([req EXCEPT !.customer_id = <<>>]) >= total
            /\ CountOf([req EXCEPT !.start_date = <<>>]) >= total
            /\ CountOf([req EXCEPT !.end_date = <<>>]) >= total

\* C3 witness: status, start_date and end_date together return an order whose
\* date equals both bounds while another order of the store is filtered out
C3_Witness ==
    /\ req.endpoint = "orders"
    /\ pc = "responded"
    /\ req.status # <<>> /\ req.start_date # <<>> /\ req.end_date = req.start_date
    /\ resp[1].status = 200
    /\ Len(resp[1].body.orders) > 0
    /\ resp[1].body.pagination.totalCount < Len(orders)

\* C4: a client that requests pages 1..totalPages of the search-less customer
\* listing over unchanged data has, at the end, seen every customer exactly
\* once, also when customers share a created_at value.
C4_PagesPartition ==
    crawl.st = "done" =>
        /\ \A i, j \in 1..Len(crawl.seen) : i # j => crawl.seen[i] # crawl.seen[j]
        /\ {crawl.seen[i] : i \in 1..Len(crawl.seen)} = {c.id : c \in Range(customers)}
        /\ Len(crawl.seen) = Len(customers)

\* C5: in GET /api/customers a search that is empty after trimming applies no
\* predicate; otherwise a customer qualifies iff its name or email contains
\* the search string literally, ignoring case; totalCount counts exactly the
\* qualifying customers and every returned row is a qualifying customer.
C5_SearchPredicate ==
    (req.endpoint = "customers" /\ pc = "responded" /\ resp[1].status = 200) =>
        LET Qualifies(name, email) ==
                \/ Trim(req.search) = <<>>
                \/ Contains(Lower(name), Lower(req.search))
                \/ Contains(Lower(email), Lower(req.search))
            rows == resp[1].body.customers
        IN  /\ resp[1].body.pagination.totalCount
                  = Cardinality({c \in Range(customers) : Qualifies(c.name, c.email)})
            /\ \A i \in 1..Len(rows) : Qualifies(rows[i].name, rows[i].email)

\* C6: a page of GET /api/customers has at most limit rows, one per customer;
\* each row's order_count is the number of all orders of that customer and
\* total_spent the sum of their totals, 0 (not null) without orders, whatever
\* page and limit are.
C6_CustomerAggregates ==
    (req.endpoint = "customers" /\ pc = "responded" /\ resp[1].status = 200) =>
        LET rows == resp[1].body.customers
            mine(i) == {o \in Range(orders) : o.customer_id = rows[i].id}
        IN  /\ Len(rows) <= locals.limit
            /\ \A i, j \in 1..Len(rows) : i # j => rows[i].id # rows[j].id
            /\ \A i \in 1..Len(rows) :
                  /\ \E c \in Range(customers) : c.id = rows[i].id
                  /\ parseInt(rows[i].order_count) = Num(Cardinality(mine(i)))
                  /\ parseFloat(rows[i].total_spent) = Num(SumTotal(mine(i)))

\* C6 witness: one page holds a customer with two orders and a customer with
\* none, whose total_spent is "0"
C6_Witness ==
    /\ req.endpoint = "customers"
    /\ pc = "responded"
    /\ resp[1].status = 200
    /\ \E i, j \in 1..Len(resp[1].body.customers) :
          /\ resp[1].body.customers[i].order_count = <<"2">>
          /\ resp[1].body.customers[j].order_count = <<"0">>
          /\ resp[1].body.customers[j].total_spent = <<"0">>

\* C7: GET /api/dashboard returns totalOrders = number of orders,
\* totalCustomers = number of customers, totalRevenue = sum of total over
\* exactly the completed and shipped orders (0 when none) and pendingOrders =
\* number of pending orders.
C7_DashboardMetrics ==
    (req.endpoint = "dashboard" /\ pc = "responded" /\ resp[1].status = 200) =>
        /\ resp[1].body.totalOrders = Len(orders)
        /\ resp[1].body.totalCustomers = Len(customers)
        /\ resp[1].body.totalRevenue
              = SumTotal({o \in Range(orders) : o.status \in {sCompleted, sShipped}})
        /\ resp[1].body.pendingOrders
              = Cardinality({o \in Range(orders) : o.status = sPending})

\* C7 witness: customer 1 with two completed orders of 299.99 and 89.99,
\* customer 2 with one pending order of 149.50: 3, 2, 389.98, 1
C7_Witness ==
    /\ req.endpoint = "dashboard"
    /\ pc = "responded"
    /\ Len(customers) = 2 /\ Len(orders) = 3
    /\ orders[1].customer_id = 1 /\ orders[1].status = sCompleted
    /\ orders[2].customer_id = 1 /\ orders[2].status = sCompleted
    /\ orders[3].customer_id = 2 /\ orders[3].status = sPending
    /\ resp[1].status = 200
    /\ resp[1].body.totalOrders = 3
    /\ resp[1].body.totalCustomers = 2
    /\ resp[1].body.totalRevenue = 38998
    /\ resp[1].body.pendingOrders = 1

\* C8: whatever the page and limit parameters of a listing request are
\* (missing, non-numeric, zero, negative), the handler works with page >= 1,
\* limit >= 1 and offset >= 0 and, unless the database is unreachable, the
\* request is answered with data.
C8_PageLimitNormalized ==
    (req.endpoint \in {"orders", "customers"} /\ pc \in {"await", "responded"}) =>
        /\ locals.page >= 1
        /\ locals.limit >= 1
        /\ locals.offset >= 0
        /\ (pc = "responded" /\ \A i \in 1..Len(queries) : ~queries[i].fault) =>
              resp[1].status = 200

\* C9: GET /api/orders with a customer_id that matches no customer, with any
\* other filters and any page, is answered with a successful empty page:
\* no orders, totalCount = 0, totalPages = 0, hasNext = false.
C9_UnknownCustomerEmptyPage ==
    (req.endpoint = "orders" /\ pc = "responded" /\ req.customer_id = <<"9">>) =>
        /\ resp[1].status = 200
        /\ resp[1].body.orders = <<>>
        /\ resp[1].body.pagination.totalCount = 0
        /\ resp[1].body.pagination.totalPages = 0
        /\ resp[1].body.pagination.hasNext = FALSE

\* C10: when a statement of a data endpoint fails, the request gets exactly
\* one response, a 500 whose body is only the endpoint's error message; no
\* statement is sent again; the server process stays up and the request can
\* be closed so that the next one is accepted.
C10_FailureIsOne500 ==
    /\ alive
    /\ Len(resp) <= 1
    /\ pc = "responded" => Len(resp) = 1
    /\ pc = "await" => Len(resp) = 0
    /\ (pc = "responded" /\ \E i \in 1..Len(queries) : queries[i].st = "failed") =>
          /\ resp[1].status = 500
          /\ DOMAIN resp[1].body = {"error"}
          /\ resp[1].body.error = ErrorMessage(req.endpoint)
    /\ pc \in {"await", "responded"} =>
          /\ Len(queries) = sent
          /\ sent = (CASE req.endpoint = "dashboard" -> 4
                       [] req.endpoint \in {"orders", "customers"} -> 2
                       [] req.endpoint \in {"revenue-breakdown", "orders-over-time",
                                            "revenue-by-customer", "order-status"} -> 1
                       [] OTHER -> 0)
    /\ (pc = "responded" /\ Pending = {}) => ENABLED Return

\* C10 witness: the revenue statement of the dashboard failed while the order
\* count had succeeded, and the request was answered with the 500
C10_Witness ==
    /\ req.endpoint = "dashboard"
    /\ pc = "responded"
    /\ queries[1].st = "ok"
    /\ queries[3].st = "failed"
    /\ resp[1].status = 500

C12_FatalStartup ==
    (~config.exists \/ \E v \in RequiredVars : config.vars[v] = Undefined) =>
        /\ ~Listening
        /\ pc = "exited" => exitCode > 0

\* C13: orders-over-time with window N (days, default 30) returns exactly one
\* row per calendar date from today - N to today that has an order, none for
\* older or future dates, in strictly ascending date order, each with the
\* count and the sum of total of that date's orders; no orders in the window
\* give an empty array.
C13_OrdersOverTimeWindow ==
    (req.endpoint = "orders-over-time" /\ pc = "responded" /\ resp[1].status = 200) =>
        LET N == IF parseInt(req.days).nan \/ parseInt(req.days).val = 0
                 THEN 30 ELSE parseInt(req.days).val
            rows == resp[1].body
            InWindow(d) == /\ DayNumber(d) >= DayNumber(today) - N
                           /\ DayNumber(d) <= DayNumber(today)
            dates == {o.order_date : o \in {x \in Range(orders) : InWindow(x.order_date)}}
            on(d) == {o \in Range(orders) : o.order_date = d}
        IN  /\ {rows[i].date : i \in 1..Len(rows)} = dates
            /\ \A i, j \in 1..Len(rows) : i < j => rows[i].date < rows[j].date
            /\ \A i \in 1..Len(rows) :
                  /\ parseInt(rows[i].order_count) = Num(Cardinality(on(rows[i].date)))
                  /\ parseFloat(rows[i].revenue) = Num(SumTotal(on(rows[i].date)))

\* C14: revenue-by-customer returns at most limit customers (default 10),
\* those with the largest sums of total over their completed orders, in
\* descending order of that sum, and a second call with the same limit over
\* the same data returns the same sequence, ties included.
C14_RevenueRanking ==
    /\ (req.endpoint = "revenue-by-customer" /\ pc = "responded" /\ resp[1].status = 200) =>
          LET rows == resp[1].body
              limit == IF req.limit = <<>> THEN 10 ELSE parseInt(req.limit).val
              sum(c) == SumTotal({o \in Range(orders) :
                                    o.customer_id = c.id /\ o.status = sCompleted})
              ranked == {c \in Range(customers) : sum(c) > 0}
              shown == {c \in ranked : \E i \in 1..Len(rows) : rows[i].name = c.name}
          IN  /\ Len(rows) <= limit
              /\ Len(rows) = Cardinality(shown)
              /\ Cardinality(shown) = IF Cardinality(ranked) < limit
                                      THEN Cardinality(ranked) ELSE limit
              /\ \A c \in shown : \A d \in ranked \ shown : sum(c) >= sum(d)
              /\ \A i \in 1..Len(rows) : \A c \in shown :
                    rows[i].name = c.name => parseFloat(rows[i].total_revenue) = Num(sum(c))
              /\ \A i, j \in 1..Len(rows) :
                    i < j => parseFloat(rows[i].total_revenue).val
                               >= parseFloat(rows[j].total_revenue).val
    /\ crawl.st # "differs"

\* C15: the rows of GET /api/customers come in descending created_at and,
\* among equal created_at, in id order, so that a page is determined by the
\* store and the request.
C15_CustomersOrder ==
    (req.endpoint = "customers" /\ pc = "responded" /\ resp[1].status = 200) =>
        LET rows == resp[1].body.customers
        IN  \A i, j \in 1..Len(rows) :
                i < j => \/ rows[i].created_at > rows[j].created_at
                         \/ /\ rows[i].created_at = rows[j].created_at
                            /\ rows[i].id < rows[j].id

\* C16: no request to any endpoint, failing or unknown ones included, changes
\* the customers or the orders of the store; when a request is over nothing
\* of it stays in the process, and every successful data response consists
\* of rows the store gives for the statements sent by that same request.
C16_ReadOnly ==
    [][ /\ customers' = customers
        /\ orders' = orders
        /\ pc' = "idle" =>
              /\ req' = NoReq
              /\ locals' = NoLocals
              /\ queries' = <<>>
              /\ resp' = <<>>
              /\ sent' = 0
        /\ (pc' = "responded" /\ resp'[1].status = 200 /\ HasCatch(req'.endpoint)) =>
              /\ sent' = Len(queries')
              /\ sent' > 0
              /\ \A i \in 1..Len(queries') :
                    [ok |-> TRUE, rows |-> queries'[i].rows]
                        \in Exec(queries'[i].sql, queries'[i].params) ]_vars

\* C16 witness: a second kind of request, an unknown route, answered while the
\* store still holds its two customers and two orders
C16_Witness ==
    /\ pc = "responded"
    /\ req.endpoint \in UnknownPaths
    /\ resp[1].status = 404
    /\ Len(customers) = 2
    /\ Len(orders) = 2

\* C17: while GET /api/dashboard waits, all four of its statements have been
\* sent, so they can finish in any order, and the metrics it answers with are
\* those of the store whatever that order was; the listing endpoints have
\* sent both their row and their count statement while they wait.
C17_ConcurrentDispatch ==
    /\ (pc \in {"await", "responded"} /\ req.endpoint = "dashboard") =>
          (sent = 4 /\ Len(queries) = 4)
    /\ (pc \in {"await", "responded"} /\ req.endpoint \in {"orders", "customers"}) =>
          /\ sent = 2 /\ Len(queries) = 2
          /\ queries[1].sql.kind \in {"orders_rows", "customers_rows"}
          /\ queries[2].sql.kind \in {"orders_count", "customers_count"}
    /\ (pc = "responded" /\ req.endpoint = "dashboard" /\ resp[1].status = 200) =>
          /\ resp[1].body.totalOrders = Len(orders)
          /\ resp[1].body.totalCustomers = Len(customers)
          /\ resp[1].body.pendingOrders = Cardinality(OrdersWithStatus(sPending))
          /\ resp[1].body.totalRevenue =
                SumTotal(OrdersWithStatus(sCompleted) \cup OrdersWithStatus(sShipped))

\* C17 witness: the fourth dashboard statement has finished while the first
\* and the third are still running
C17_Witness ==
    /\ pc = "await"
    /\ req.endpoint = "dashboard"
    /\ queries[4].st = "ok"
    /\ queries[1].st = "pending"
    /\ queries[3].st = "pending"

\* C18: never more than the pool's maximum of 10 connections are checked
\* out; a statement that gets no connection within the timeout fails and its
\* request is answered with the endpoint's 500; and every request that waits
\* is eventually answered, also when the other connections are never given
\* back.
C18_PoolBounded ==
    /\ [](InUse <= 10)
    /\ []((pc = "responded" /\ \E i \in 1..Len(queries) : queries[i].err = AcquireError)
            => (resp[1].status = 500 /\ DOMAIN resp[1].body = {"error"}))
    /\ (pc = "await") ~> (pc = "responded")

\* C18 witness: with all ten connections held elsewhere the dashboard's
\* statements were queued, one timed out, and the request got its 500
C18_Witness ==
    /\ busy = 10
    /\ req.endpoint = "dashboard"
    /\ pc = "responded"
    /\ queries[1].err = AcquireError
    /\ resp[1].status = 500

\* C19: request values reach the database only as bound parameters: the SQL
\* text of a listing depends on which filters are present, never on their
\* values, and the values are the parameters, in order; the one value written
\* into SQL text, days of orders-over-time, is a finite integer for every days
\* query string, and 30 when the string is missing, non-numeric or zero.
C19_BoundParametersOnly ==
    pc = "await" =>
        LET paging == <<PNumber(locals.limit), PNumber(locals.offset)>>
            vals == <<req.status, req.customer_id, req.start_date, req.end_date>>
            cols == <<"status", "customer_id", "order_date", "order_date">>
            ops == <<"=", "=", ">=", "<=">>
            Present(k) == vals[k] # <<>>
            idx == SelectSeq(<<1, 2, 3, 4>>, Present)
            where == [i \in 1..Len(idx) |-> Clause(cols[idx[i]], ops[idx[i]], i)]
            given == [i \in 1..Len(idx) |-> PText(vals[idx[i]])]
            n == Len(idx)
            s == IF req.search = <<>> THEN 0 ELSE 1
            pattern == IF s = 0 THEN <<>> ELSE <<PText(<<"%">> \o req.search \o <<"%">>)>>
            like == IF s = 0 THEN <<>> ELSE <<Clause("name_or_email", "ILIKE", 1)>>
            d == parseInt(req.days)
        IN  /\ req.endpoint = "orders" =>
                  /\ queries[1].sql = Sql("orders_rows", where, n + 1, n + 2, <<>>)
                  /\ queries[1].params = given \o paging
                  /\ queries[2].sql = Sql("orders_count", where, 0, 0, <<>>)
                  /\ queries[2].params = given
            /\ req.endpoint = "customers" =>
                  /\ queries[1].sql = Sql("customers_rows", like, s + 1, s + 2, <<>>)
                  /\ queries[1].params = pattern \o paging
                  /\ queries[2].sql = Sql("customers_count", like, 0, 0, <<>>)
                  /\ queries[2].params = pattern
            /\ req.endpoint = "revenue-by-customer" =>
                  /\ queries[1].sql = Sql("revenue_by_customer", <<>>, 1, 0, <<>>)
                  /\ queries[1].params = <<PNumber(locals.limit)>>
            /\ req.endpoint = "orders-over-time" =>
                  /\ queries[1].sql.kind = "orders_over_time"
                  /\ queries[1].params = <<>>
                  /\ ~d.inf
                  /\ queries[1].sql.days = IntToStr(IF d.nan \/ d.val = 0 THEN 30 ELSE d.val)
                  /\ PgInteger(queries[1].sql.days).ok

\* C20: the average order value shown by the dashboard is
\* totalRevenue / max(totalOrders, 1) for the non-negative metrics it
\* received; with totalOrders = 0 it is 0, a finite number and not the result
\* of a division by zero.
C20_AverageOrderValue ==
    view.st = "rendered" =>
        LET m == view.metrics
            a == view.averageOrderValue
            floor == IF m.totalOrders > 1 THEN m.totalOrders ELSE 1
        IN  /\ m.totalOrders >= 0 /\ m.totalRevenue >= 0
            /\ ~a.q.nan /\ ~a.q.inf
            /\ a.den # 0
            /\ a.q.val * floor = m.totalRevenue * a.den
            /\ m.totalOrders = 0 => a.q.val = 0

\* the cards are rendered over a store without orders
C20_Witness ==
    /\ view.st = "rendered"
    /\ Len(orders) = 0
    /\ view.metrics.totalOrders = 0
    /\ view.averageOrderValue = Divide(0, 1)

\* C21: for every non-empty series the API delivered, the projected monthly
\* revenue is (sum of the rows' revenue / number of rows) * 30 and the percent
\* change is (last.order_count - first.order_count) / first.order_count * 100.
C21_TrendFigures ==
    Len(view.ordersOverTime) > 0 =>
        LET rows == view.ordersOverTime
            n == Len(rows)
            t == view.ordersTrend
            RECURSIVE Sum(_)
            Sum(k) == IF k = 0 THEN 0 ELSE Sum(k - 1) + parseFloat(rows[k].revenue).val
            firstCount == parseInt(rows[1].order_count).val
            lastCount == parseInt(rows[n].order_count).val
        IN  /\ ~t.projectedMonthlyRevenue.q.nan /\ ~t.projectedMonthlyRevenue.q.inf
            /\ t.projectedMonthlyRevenue.q.val * n = Sum(n) * 30 * t.projectedMonthlyRevenue.den
            /\ ~t.percentChange.q.nan /\ ~t.percentChange.q.inf
            /\ t.percentChange.q.val * firstCount
                   = (lastCount - firstCount) * 100 * t.percentChange.den

\* C22: the best day of the trend is a row whose revenue is numerically
\* maximal among the rows of the series.
C22_BestDayIsMaximal ==
    Len(view.ordersOverTime) > 0 =>
        /\ \E i \in DOMAIN view.ordersOverTime :
               view.ordersOverTime[i] = view.ordersTrend.bestDay
        /\ \A i \in DOMAIN view.ordersOverTime :
               parseFloat(view.ordersOverTime[i].revenue).val
                   <= parseFloat(view.ordersTrend.bestDay.revenue).val

\* C28: the response of a trend request whose range is no longer current, or
\* that arrives after the component is gone, is never written to
\* ordersOverTime; once the request for the current range has settled,
\* ordersOverTime holds its rows (or is unchanged if it failed) and
\* trendLoading is false; a trend request never touches the error state.
C28_TrendResponses ==
    /\ [](view.st \in {"loading", "ready", "failed", "rendered"}
             /\ view.trend[Len(view.trend)].st = "settled"
          => /\ ~view.trendLoading
             /\ view.trend[Len(view.trend)].ok
                   => view.ordersOverTime = view.trend[Len(view.trend)].data)
    /\ [][\A i \in DOMAIN view.trend :
             view.trend[i].st = "serving" /\ view'.trend[i].st = "settled"
             => /\ view'.error = view.error
                /\ IF /\ i = Len(view.trend)
                      /\ view.st \in {"loading", "ready", "failed", "rendered"}
                      /\ view'.trend[i].ok
                   THEN view'.ordersOverTime = view'.trend[i].data
                   ELSE view'.ordersOverTime = view.ordersOverTime]_vars

\* the range was changed while the first request was in flight, the second
\* request settled first and the response to the first arrived afterwards
C28_Witness ==
    /\ Len(view.trend) = 2
    /\ view.trend[1].st = "settled" /\ view.trend[1].ok /\ ~view.trend[1].live
    /\ view.trend[2].st = "settled" /\ view.trend[2].ok
    /\ view.trend[1].data # view.trend[2].data
    /\ view.ordersOverTime = view.trend[2].data
    /\ ~view.trendLoading

\* C23: the payment cell of a displayed order is its payment_method with every
\* underscore replaced by a space and the first letter capitalized, whatever
\* the number of underscores.
C23_PaymentDisplay ==
    \A k \in DOMAIN table.cells :
        table.orders[k].payment_method # Null =>
            LET pm == table.orders[k].payment_method
                spaced == [i \in DOMAIN pm |-> IF pm[i] = "_" THEN " " ELSE pm[i]]
            IN  /\ table.cells[k] = capitalizeFirst(spaced)
                /\ \A i \in DOMAIN table.cells[k] : table.cells[k][i] # "_"

\* C24: once every response has arrived, the rows and the pagination on display
\* are those of the request issued last, in whatever order the responses came.
C24_LatestResponseWins ==
    (/\ table.fetches # <<>>
     /\ \A i \in DOMAIN table.fetches : table.fetches[i].st = "settled"
     /\ table.fetches[Len(table.fetches)].ok)
    => /\ table.orders = table.fetches[Len(table.fetches)].data.orders
       /\ table.pagination = table.fetches[Len(table.fetches)].data.pagination

\* C29: handleFilterChange with a key other than page sets that key and page 1
\* and nothing else; handleFilterChange('page', n) and handlePageChange(n)
\* change only the page; clearFilters leaves {page: 1, limit: 10}; hence right
\* after a filter change or a clear the page is 1.
C29_FilterUpdates ==
    LET f == table.filters
        l == table.last
        Keys == {"page", "limit", "status", "customer_id", "start_date", "end_date"}
    IN  /\ (l.op = "handleFilterChange" /\ l.key # "page")
             => /\ f[l.key] = l.value
                /\ f.page = 1
                /\ \A k \in Keys \ {l.key, "page"} : f[k] = l.prev[k]
        /\ (l.op = "handlePageChange" \/ (l.op = "handleFilterChange" /\ l.key = "page"))
             => /\ f.page = l.value
                /\ \A k \in Keys \ {"page"} : f[k] = l.prev[k]
        /\ l.op = "clearFilters"
             => /\ f.page = 1 /\ f.limit = 10
                /\ \A k \in Keys \ {"page", "limit"} : f[k] = Null

\* the status filter was changed on page 2 of a listing with another page size
C29_Witness ==
    /\ table.last.op = "handleFilterChange"
    /\ table.last.key = "status"
    /\ table.last.prev.page = 2
    /\ table.filters.page = 1
    /\ table.filters.status = sCompleted

\* C25: paging through GET /api/orders from page 1 to the last page over an
\* unchanged store returns every qualifying order exactly once, also when
\* orders share their created_at.
C25_OrderPagesPartition ==
    (crawl.endpoint = "orders" /\ crawl.st = "done") =>
        /\ Len(crawl.seen) = Len(orders)
        /\ \A o \in DOMAIN orders :
               Cardinality({i \in DOMAIN crawl.seen : crawl.seen[i] = orders[o].id}) = 1

\* C26: window.initChatbotWidget is called at most once, never before
\* initChatbotWidget, React and ReactDOM are all defined, and no poll is
\* pending once it has been called.
C26_WidgetInitializedOnce ==
    /\ app.calls <= 1
    /\ ~app.early
    /\ app.calls > 0 => app.timers = {}

\* C30: the active tab is one of the four tabs; ArrowRight selects the next
\* tab and ArrowLeft the previous one, wrapping at both ends; another key
\* changes nothing; ArrowRight then ArrowLeft, and four times ArrowRight,
\* lead back to the tab they started from.
C30_KeyNavigation ==
    LET n == Len(app.trail)
        Index(id) == CHOOSE i \in 1..4 : tabs[i] = id
        Following(id) == tabs[(Index(id) % 4) + 1]
        Preceding(id) == tabs[((Index(id) + 2) % 4) + 1]
        Keys(k) == [i \in 1..k |-> app.trail[n - k + i].key]
    IN  /\ app.activeTab \in {"dashboard", "charts", "customers", "orders"}
        /\ n > 0 =>
              /\ app.trail[n].key = "ArrowRight" => app.activeTab = Following(app.trail[n].from)
              /\ app.trail[n].key = "ArrowLeft" => app.activeTab = Preceding(app.trail[n].from)
              /\ app.trail[n].key \in {"Enter", "ArrowDown"} => app.activeTab = app.trail[n].from
        /\ (n >= 2 /\ Keys(2) = <<"ArrowRight", "ArrowLeft">>)
              => app.activeTab = app.trail[n - 1].from
        /\ (n >= 4 /\ Keys(4) = <<"ArrowRight", "ArrowRight", "ArrowRight", "ArrowRight">>)
              => app.activeTab = app.trail[n - 3].from

\* ArrowLeft was pressed on the first tab and ArrowRight on the last one
C30_Witness ==
    /\ Len(app.trail) >= 2
    /\ app.trail[Len(app.trail) - 1] = [from |-> "dashboard", key |-> "ArrowLeft"]
    /\ app.trail[Len(app.trail)] = [from |-> "orders", key |-> "ArrowRight"]
    /\ app.activeTab = "dashboard"

\* C27: whatever signals and pool errors arrive, also while a shutdown is
\* closing the pool, pool.end() is called at most once, and the process exits
\* with 0 when the pool closed and with 1 only when closing failed.
C27_ShutdownOnce ==
    /\ Len(pool.events) <= 1
    /\ pool.code = 1 => pool.failed
    /\ pool.code = 0 => ~pool.failed

====
